---- MODULE Spec2Model ----
(***************************************************************************)
(* QR Code symbol construction, Version 1 and 2, Error Correction Level L. *)
(*                                                                         *)
(* The pipeline of app.py (assemble_qr_matrix) is modelled stage by stage: *)
(* byte-mode encoding, Reed-Solomon error correction, bitstream assembly,  *)
(* module placement, mask selection, format string generation and format   *)
(* information placement.  Every function of the source is an operator of  *)
(* the same name; the actions apply them to the locals of the pipeline.    *)
(*                                                                         *)
(* Bit strings ('0'/'1' strings of the source) are sequences over {0, 1}.  *)
(* A matrix is a function row -> (column -> cell), rows and columns        *)
(* numbered from 0 as in the source.  A cell is 0, 1, R or None.           *)
(***************************************************************************)
EXTENDS Integers, Sequences, FiniteSets, TLC

VARIABLES
    pc,             \* position in the pipeline
    text,           \* input text: sequence of Unicode code points
    data_cw,        \* data codewords: sequence of 8-bit strings
    version,        \* selected version (0 while not selected)
    ecc_cw,         \* error correction codewords: sequence of 8-bit strings
    final_bits,     \* bitstream handed to module placement
    matrix,         \* matrix returned by generate_qr_module
    mask_map,       \* function pattern map
    masked_matrix,  \* best masked matrix returned by find_best_pattern
    best_mask,      \* mask id returned by find_best_pattern (-1 before)
    scores,         \* total penalty of each mask evaluated so far
    ec_level,       \* 2-bit error correction level indicator
    fmt,            \* 15-bit format string
    int_matrix,     \* integer-only matrix, written in place by format placement
    c_coord,        \* loop variable of the last loop of place_format_information
    idx,            \* bit index of the last loop of place_format_information
    final_matrix,   \* matrix returned by place_format_information
    error,          \* "none", or the error raised
    calls,          \* concurrent invocations: the locals of each, matrices by reference
    heap,           \* the matrix objects the concurrent invocations allocated
    solo,           \* each concurrent invocation run on its own, in a heap of its own
    mask_arg        \* mask id handed to apply_specific_mask_pattern (-1: none)

vars == << pc, text, data_cw, version, ecc_cw, final_bits, matrix, mask_map,
           masked_matrix, best_mask, scores, ec_level, fmt, int_matrix,
           c_coord, idx, final_matrix, error, calls, heap, solo, mask_arg >>

-----------------------------------------------------------------------------
(* Bounds of the model.                                                    *)

\* texts of 0..MaxTextLen characters are tried
MaxTextLen == 34
\* texts are drawn from MaxSeed + 1 families of characters
MaxSeed == 1
\* a character outside ISO-8859-1 is put at position 0 (nowhere) .. MaxBadPos
MaxBadPos == 1
\* synthetic bitstreams: bit i is 1 when i is a multiple of 2 .. MaxFill + 2
MaxFill == 1
\* small matrices handed to find_best_pattern: seeds 0 .. MaxMatrixSeed
MaxMatrixSeed == 31
\* the bits of a seed repeat every PatternBits cells
PatternBits == 7

-----------------------------------------------------------------------------
(* Cell values other than 0 and 1.                                         *)

\* the reserved marker 'R'
R == 2
\* an unset cell
None == 3

IsInt(cell) == cell \in {0, 1}

EmptyMatrix == << >>

-----------------------------------------------------------------------------
(* Bit strings and integers.                                               *)

\* the sequence evaluated once, element by element
Evaluated(seq) == SubSeq(seq, 1, Len(seq))

RECURSIVE Pow2(_)
Pow2(n) == IF n = 0 THEN 1 ELSE 2 * Pow2(n - 1)

\* format(value, '0<width>b')
FormatBits(value, width) ==
    Evaluated([i \in 1..width |-> (value \div Pow2(width - i)) % 2])

\* int(bits, 2)
RECURSIVE IntOfBits(_)
IntOfBits(bits) ==
    IF Len(bits) = 0 THEN 0
    ELSE 2 * IntOfBits(SubSeq(bits, 1, Len(bits) - 1)) + bits[Len(bits)]

\* a ^ b on non-negative integers
RECURSIVE Xor(_, _)
Xor(a, b) ==
    IF a = 0 THEN b
    ELSE IF b = 0 THEN a
    ELSE 2 * Xor(a \div 2, b \div 2) + (((a % 2) + (b % 2)) % 2)

\* ''.join(list of strings)
RECURSIVE Join(_)
Join(strs) ==
    IF Len(strs) = 0 THEN << >> ELSE Head(strs) \o Join(Tail(strs))

\* '0' * n
Zeros(n) == Evaluated([i \in 1..n |-> 0])

Min(a, b) == IF a < b THEN a ELSE b

-----------------------------------------------------------------------------
(* Input texts.                                                            *)

\* "HELLO WORLD", "A", then letters, digits, punctuation and the Latin-1
\* characters e-acute and y-diaeresis
BaseChars ==
    << 72, 69, 76, 76, 79, 32, 87, 79, 82, 76, 68, 65, 104, 116, 116, 112, 58,
       47, 47, 97, 46, 98, 233, 49, 50, 255, 63, 0, 122, 45, 95, 126, 33, 35,
       36, 37, 38 >>

\* characters ISO-8859-1 cannot represent: U+20AC
OutsideChars == << 8364 >>

MkText(n, seed, bad) ==
    [i \in 1..n |->
        IF i = bad THEN OutsideChars[1]
        ELSE BaseChars[((((i - 1) * (2 * seed + 1)) + (11 * seed)) % Len(BaseChars)) + 1]]

TextInputs ==
    { MkText(n, seed, bad) :
        n \in 0..MaxTextLen, seed \in 0..MaxSeed, bad \in 0..MaxBadPos }

-----------------------------------------------------------------------------
(* data_encoding.py                                                        *)

\* data.encode('iso-8859-1', errors='strict')
Latin1Encodable(data) == \A i \in 1..Len(data) : data[i] <= 255

\* every code point up to 255 is encoded as the byte of the same value
Latin1Bytes(data) == Evaluated([i \in 1..Len(data) |-> data[i]])

\* variant: the version 1 capacity test written with < instead of <=
SelectVersion_Strict(n) ==
    IF n < 17 THEN 1
    ELSE IF n <= 32 THEN 2
    ELSE 0

\* variant: no rejection above the version 2 capacity
SelectVersion_NoLimit(n) == IF n <= 17 THEN 1 ELSE 2

SelectVersion(n) ==
    IF n <= 17 THEN 1
    ELSE IF n <= 32 THEN 2
    ELSE 0

TotalDataCodewords(v) == IF v = 1 THEN 19 ELSE 34

\* variant: the data bytes appended last byte first
RECURSIVE AppendBytes_Backwards(_, _)
AppendBytes_Backwards(bit_stream, bytes) ==
    IF Len(bytes) = 0 THEN bit_stream
    ELSE AppendBytes_Backwards(bit_stream \o FormatBits(bytes[Len(bytes)], 8),
                               SubSeq(bytes, 1, Len(bytes) - 1))

RECURSIVE AppendBytes(_, _)
AppendBytes(bit_stream, bytes) ==
    IF Len(bytes) = 0 THEN bit_stream
    ELSE AppendBytes(bit_stream \o FormatBits(Head(bytes), 8), Tail(bytes))

AddTerminator(bit_stream, total_bits_needed) ==
    bit_stream \o Zeros(Min(4, total_bits_needed - Len(bit_stream)))

PadToByte(bit_stream) ==
    IF (Len(bit_stream) % 8) # 0
    THEN bit_stream \o Zeros(8 - (Len(bit_stream) % 8))
    ELSE bit_stream

pad_bytes == << <<1, 1, 1, 0, 1, 1, 0, 0>>, <<0, 0, 0, 1, 0, 0, 0, 1>> >>

\* variant: the pad bytes alternate starting with 00010001
RECURSIVE AddPadBytes_Swapped(_, _, _)
AddPadBytes_Swapped(bit_stream, pad_index, total_bits_needed) ==
    IF Len(bit_stream) < total_bits_needed
    THEN AddPadBytes_Swapped(bit_stream \o pad_bytes[((pad_index + 1) % 2) + 1],
                             pad_index + 1, total_bits_needed)
    ELSE bit_stream

\* variant: the pad loop tests <= instead of <
RECURSIVE AddPadBytes_OneMore(_, _, _)
AddPadBytes_OneMore(bit_stream, pad_index, total_bits_needed) ==
    IF Len(bit_stream) <= total_bits_needed
    THEN AddPadBytes_OneMore(bit_stream \o pad_bytes[(pad_index % 2) + 1],
                             pad_index + 1, total_bits_needed)
    ELSE bit_stream

RECURSIVE AddPadBytes(_, _, _)
AddPadBytes(bit_stream, pad_index, total_bits_needed) ==
    IF Len(bit_stream) < total_bits_needed
    THEN AddPadBytes(bit_stream \o pad_bytes[(pad_index % 2) + 1],
                     pad_index + 1, total_bits_needed)
    ELSE bit_stream

\* [bit_stream[i:i + 8] for i in range(0, len(bit_stream), 8)]
SplitCodewords(bit_stream) ==
    Evaluated([k \in 1..((Len(bit_stream) + 7) \div 8) |->
        SubSeq(bit_stream, 8 * (k - 1) + 1, Min(8 * k, Len(bit_stream)))])

\* the bit stream of encode_byte_mode just before it is split
DataBitStream(data_bytes, total_data_codewords) ==
    LET header == <<0, 1, 0, 0>> \o FormatBits(Len(data_bytes), 8)
        with_data == AppendBytes(header, data_bytes)
        total_bits_needed == total_data_codewords * 8
        terminated == AddTerminator(with_data, total_bits_needed)
        aligned == PadToByte(terminated)
    IN  AddPadBytes(aligned, 0, total_bits_needed)

\* variant: the capacity check made before the transcoding check
encode_byte_mode_LengthFirst(data) ==
    IF SelectVersion(Len(data)) = 0
    THEN [error |-> "PayloadTooLong", codewords |-> << >>, version |-> 0]
    ELSE IF ~Latin1Encodable(data)
    THEN [error |-> "InvalidCharacter", codewords |-> << >>, version |-> 0]
    ELSE LET data_bytes == Latin1Bytes(data)
             v == SelectVersion(Len(data_bytes))
             total == TotalDataCodewords(v)
             codewords == SplitCodewords(DataBitStream(data_bytes, total))
         IN  [error |-> "none",
              codewords |-> SubSeq(codewords, 1, Min(total, Len(codewords))),
              version |-> v]

\* encode_byte_mode: [error, codewords, version]
encode_byte_mode(data) ==
    IF ~Latin1Encodable(data)
    THEN [error |-> "InvalidCharacter", codewords |-> << >>, version |-> 0]
    ELSE LET data_bytes == Latin1Bytes(data)
             v == SelectVersion(Len(data_bytes))
         IN  IF v = 0
             THEN [error |-> "PayloadTooLong", codewords |-> << >>, version |-> 0]
             ELSE LET total == TotalDataCodewords(v)
                      codewords == SplitCodewords(DataBitStream(data_bytes, total))
                  IN  [error |-> "none",
                       codewords |-> SubSeq(codewords, 1, Min(total, Len(codewords))),
                       version |-> v]

-----------------------------------------------------------------------------
(* error_correction.py: RSCodec(ecc_count).encode over GF(256), primitive  *)
(* polynomial 0x11D, generator element 2, first consecutive root alpha^0.  *)

\* the primitive polynomial x^8 + x^4 + x^3 + x^2 + 1
GF_PRIM == 285

\* x * alpha in GF(256)
gf_times_alpha(x) ==
    LET doubled == 2 * x
    IN  IF doubled >= 256 THEN Xor(doubled, GF_PRIM) ELSE doubled

\* the product in GF(256), by shift and add, reduced by the primitive polynomial
RECURSIVE gf_mul(_, _)
gf_mul(x, y) ==
    IF x = 0 \/ y = 0 THEN 0
    ELSE LET rest == gf_mul(gf_times_alpha(x), y \div 2)
         IN  IF y % 2 = 1 THEN Xor(x, rest) ELSE rest

\* alpha^i
RECURSIVE gf_pow_alpha(_)
gf_pow_alpha(i) == IF i = 0 THEN 1 ELSE gf_times_alpha(gf_pow_alpha(i - 1))

\* p(x) * (x - alpha^i), coefficients high degree first
gf_poly_mul_root(p, i) ==
    Evaluated([j \in 1..(Len(p) + 1) |->
        Xor(IF j <= Len(p) THEN p[j] ELSE 0,
            IF j >= 2 THEN gf_mul(p[j - 1], gf_pow_alpha(i)) ELSE 0)])

\* variant: the roots of the generator are alpha^1 .. alpha^nsym
RECURSIVE rs_generator_poly_FromOne(_)
rs_generator_poly_FromOne(nsym) ==
    IF nsym = 0 THEN << 1 >>
    ELSE gf_poly_mul_root(rs_generator_poly_FromOne(nsym - 1), nsym)

\* the generator polynomial: product of (x - alpha^i), i in 0..nsym-1
RECURSIVE rs_generator_poly(_)
rs_generator_poly(nsym) ==
    IF nsym = 0 THEN << 1 >>
    ELSE gf_poly_mul_root(rs_generator_poly(nsym - 1), nsym - 1)

rs_gen_7 == rs_generator_poly(7)
rs_gen_10 == rs_generator_poly(10)

\* one step of the long division of msg(x) * x^nsym by gen(x)
rs_divide_step(rem, gen, i) ==
    LET coef == rem[i]
    IN  IF coef = 0 THEN rem
        ELSE Evaluated([j \in 1..Len(rem) |->
                IF j > i /\ j < i + Len(gen)
                THEN Xor(rem[j], gf_mul(gen[j - i + 1], coef))
                ELSE rem[j]])

RECURSIVE rs_divide(_, _, _, _)
rs_divide(rem, gen, i, n) ==
    IF i > n \/ Len(rem) < i THEN rem
    ELSE rs_divide(rs_divide_step(rem, gen, i), gen, i + 1, n)

\* rs.encode(msg)[-nsym:]
rs_encode_ecc(msg, nsym) ==
    LET gen == IF nsym = 7 THEN rs_gen_7 ELSE rs_gen_10
        padded == msg \o Zeros(nsym)
        rem == rs_divide(padded, gen, 1, Len(msg))
    IN  SubSeq(rem, Len(msg) + 1, Len(msg) + nsym)

\* variant: the counts of the two versions exchanged
EccCount_Exchanged(v) == IF v = 1 THEN 10 ELSE 7

EccCount(v) == IF v = 1 THEN 7 ELSE 10

generate_error_correction(data_codeword_integers, v) ==
    LET ecc_byte_integers == rs_encode_ecc(data_codeword_integers, EccCount(v))
    IN  Evaluated([k \in 1..Len(ecc_byte_integers) |->
                     FormatBits(ecc_byte_integers[k], 8)])

-----------------------------------------------------------------------------
(* app.py: bitstream assembly                                              *)

CodewordInts(codewords) ==
    Evaluated([k \in 1..Len(codewords) |-> IntOfBits(codewords[k])])

\* variant: no remainder bits for version 2
FinalBits_NoRemainder(data, ecc, v) == Join(data \o ecc)

FinalBits(data, ecc, v) ==
    LET all_codewords == data \o ecc
        bits == Join(all_codewords)
    IN  IF v = 2 THEN bits \o Zeros(7) ELSE bits

-----------------------------------------------------------------------------
(* matrix_layout.py: sizes, constants                                      *)

\* variant: the size formula without the "- 1"
get_size_from_version_Wrong(v) == v * 4 + 21

get_size_from_version(v) == (v - 1) * 4 + 21

get_version_from_size(size) == ((size - 21) \div 4) + 1

V1_EFFECTIVE_BITSTREAM_LENGTH == 26 * 8
V2_EFFECTIVE_BITSTREAM_LENGTH == 44 * 8 + 7

\* centre coordinates of the alignment patterns, versions 1 and 2
ALIGNMENT_PATTERN_COORDS_LOOKUP(v) == IF v = 2 THEN {6, 18} ELSE {}

\* (row, column) of format bit i + 1, around the top-left finder
FORMAT_INFO_COORDINATES_PRIMARY ==
    << <<8, 0>>, <<8, 1>>, <<8, 2>>, <<8, 3>>, <<8, 4>>, <<8, 5>>, <<8, 7>>,
       <<8, 8>>,
       <<7, 8>>, <<5, 8>>, <<4, 8>>, <<3, 8>>, <<2, 8>>, <<1, 8>>, <<0, 8>> >>

PrimaryCells == { FORMAT_INFO_COORDINATES_PRIMARY[i] : i \in 1..15 }

Rows(m) == DOMAIN m
Cols(m) == 0..(Cardinality(DOMAIN m) - 1)

create_matrix(size) == [r \in 0..(size - 1) |-> [c \in 0..(size - 1) |-> None]]

finder_pattern ==
    << <<1, 1, 1, 1, 1, 1, 1>>,
       <<1, 0, 0, 0, 0, 0, 1>>,
       <<1, 0, 1, 1, 1, 0, 1>>,
       <<1, 0, 1, 1, 1, 0, 1>>,
       <<1, 0, 1, 1, 1, 0, 1>>,
       <<1, 0, 0, 0, 0, 0, 1>>,
       <<1, 1, 1, 1, 1, 1, 1>> >>

place_finder_pattern(m, r_start, c_start) ==
    [r \in Rows(m) |-> [c \in Cols(m) |->
        IF r - r_start \in 0..6 /\ c - c_start \in 0..6
        THEN finder_pattern[r - r_start + 1][c - c_start + 1]
        ELSE m[r][c]]]

place_finder_patterns(m, size) ==
    place_finder_pattern(
        place_finder_pattern(
            place_finder_pattern(m, 0, 0),
            0, size - 7),
        size - 7, 0)

SeparatorCells(size) ==
    UNION { { <<i, 7>>, <<7, i>>,
              <<i, size - 8>>, <<7, size - 1 - i>>,
              <<size - 8, i>>, <<size - 1 - i, 7>> } : i \in 0..7 }

\* variant: no separators are placed
add_separators_Omitted(m, size) == m

add_separators(m, size) ==
    [r \in Rows(m) |-> [c \in Cols(m) |->
        IF <<r, c>> \in SeparatorCells(size) THEN 0 ELSE m[r][c]]]

alignment_pattern ==
    << <<1, 1, 1, 1, 1>>,
       <<1, 0, 0, 0, 1>>,
       <<1, 0, 1, 0, 1>>,
       <<1, 0, 0, 0, 1>>,
       <<1, 1, 1, 1, 1>> >>

place_alignment_pattern(m, center_r, center_c) ==
    [r \in Rows(m) |-> [c \in Cols(m) |->
        IF r - center_r \in -2..2 /\ c - center_c \in -2..2 /\ m[r][c] = None
        THEN alignment_pattern[r - center_r + 3][c - center_c + 3]
        ELSE m[r][c]]]

\* the centres whose 5x5 footprint overlaps no finder zone (separator included)
AlignmentCentersLayout(v, size) ==
    LET coords_list == ALIGNMENT_PATTERN_COORDS_LOOKUP(v)
        finder_zones == { <<0, 0, 7, 7>>,
                          <<0, size - 8, 7, size - 1>>,
                          <<size - 8, 0, size - 1, 7>> }
        Overlaps(rc, cc, z) ==
            ~(rc + 2 < z[1] \/ rc - 2 > z[3] \/ cc + 2 < z[2] \/ cc - 2 > z[4])
    IN  { ctr \in coords_list \X coords_list :
            \A z \in finder_zones : ~Overlaps(ctr[1], ctr[2], z) }

\* footprints of distinct centres of one version never share a cell, so the
\* order in which the patterns are placed does not matter
RECURSIVE PlaceAlignmentAt(_, _)
PlaceAlignmentAt(m, centers) ==
    IF centers = {} THEN m
    ELSE LET ctr == CHOOSE x \in centers : TRUE
         IN  PlaceAlignmentAt(place_alignment_pattern(m, ctr[1], ctr[2]),
                              centers \ {ctr})

place_alignment_patterns(m, v) ==
    IF v < 2 THEN m
    ELSE PlaceAlignmentAt(m, AlignmentCentersLayout(v, Cardinality(DOMAIN m)))

\* variant: the timing cells dark at odd indices
place_timing_patterns_Odd(m, size) ==
    [r \in Rows(m) |-> [c \in Cols(m) |->
        IF m[r][c] = None /\ ((r = 6 /\ c \in 8..(size - 9)) \/ (c = 6 /\ r \in 8..(size - 9)))
        THEN LET i == IF r = 6 THEN c ELSE r
             IN  IF i % 2 = 1 THEN 1 ELSE 0
        ELSE m[r][c]]]

place_timing_patterns(m, size) ==
    [r \in Rows(m) |-> [c \in Cols(m) |->
        IF m[r][c] = None /\ ((r = 6 /\ c \in 8..(size - 9)) \/ (c = 6 /\ r \in 8..(size - 9)))
        THEN LET i == IF r = 6 THEN c ELSE r
             IN  IF i % 2 = 0 THEN 1 ELSE 0
        ELSE m[r][c]]]

\* variant: the two copy areas one cell short
reserve_format_info_areas_Seven(m, size) ==
    [r \in Rows(m) |-> [c \in Cols(m) |->
        IF m[r][c] = None
           /\ (\/ <<r, c>> \in PrimaryCells
               \/ (r = 8 /\ size - 1 - c \in 0..6)
               \/ (c = 8 /\ size - 1 - r \in 0..6))
        THEN R
        ELSE m[r][c]]]

reserve_format_info_areas(m, size) ==
    [r \in Rows(m) |-> [c \in Cols(m) |->
        IF m[r][c] = None
           /\ (\/ <<r, c>> \in PrimaryCells
               \/ (r = 8 /\ size - 1 - c \in 0..7)
               \/ (c = 8 /\ size - 1 - r \in 0..7))
        THEN R
        ELSE m[r][c]]]

place_dark_module(m, size) ==
    LET dark_module_row == size - 8
        dark_module_col == 8
    IN  IF m[dark_module_row][dark_module_col] = None
        THEN [m EXCEPT ![dark_module_row][dark_module_col] = R]
        ELSE m

\* generate_qr_module up to the call of place_data_bits
LayoutPatterns(v) ==
    LET size == get_size_from_version(v)
        m0 == create_matrix(size)
        m1 == place_finder_patterns(m0, size)
        m2 == add_separators(m1, size)
        m3 == IF v >= 2 THEN place_alignment_patterns(m2, v) ELSE m2
        m4 == place_timing_patterns(m3, size)
        m5 == reserve_format_info_areas(m4, size)
    IN  place_dark_module(m5, size)

-----------------------------------------------------------------------------
(* matrix_layout.py: place_data_bits                                       *)

\* the body of the innermost loop: st = [matrix, bit_idx]
PlaceCell(st, row, current_c, size, data_bits_str) ==
    IF 0 <= current_c /\ current_c < size /\ st.matrix[row][current_c] = None
    THEN IF st.bit_idx < Len(data_bits_str)
         THEN [matrix |-> [st.matrix EXCEPT ![row][current_c] = data_bits_str[st.bit_idx + 1]],
               bit_idx |-> st.bit_idx + 1]
         ELSE [matrix |-> [st.matrix EXCEPT ![row][current_c] = 0],
               bit_idx |-> st.bit_idx]
    ELSE st

\* variant: the left column of a pair before the right one
PlaceRowPair_LeftFirst(st, row, current_path_col, size, data_bits_str) ==
    PlaceCell(PlaceCell(st, row, current_path_col - 1, size, data_bits_str),
              row, current_path_col, size, data_bits_str)

\* for c_offset in range(2): the right column, then the left one
PlaceRowPair(st, row, current_path_col, size, data_bits_str) ==
    PlaceCell(PlaceCell(st, row, current_path_col, size, data_bits_str),
              row, current_path_col - 1, size, data_bits_str)

\* the state the loops carry is read where an iteration starts, so that each
\* iteration is evaluated before the next one rather than all at the end
Reached(st) == st.bit_idx >= 0

\* for _ in range(size): ... ; leaves [st, row, direction, col] as the loop does
RECURSIVE PlaceColumnPair(_, _, _, _, _, _, _)
PlaceColumnPair(st, row, col, direction, k, size, data_bits_str) ==
    IF k >= size \/ ~Reached(st)
    THEN [st |-> st, row |-> row, direction |-> direction, col |-> col]
    ELSE LET st2 == PlaceRowPair(st, row, col, size, data_bits_str)
             row2 == row + direction
         IN  IF ~(0 <= row2 /\ row2 < size)
             THEN [st |-> st2, row |-> row2 - direction,
                   direction |-> -direction, col |-> col - 2]
             ELSE PlaceColumnPair(st2, row2, col, direction, k + 1, size, data_bits_str)

\* while col >= 0: ...
RECURSIVE PlaceColumns(_, _, _, _, _, _)
PlaceColumns(st, row, col, direction, size, data_bits_str) ==
    IF col < 0 THEN st
    ELSE IF col = 6
    THEN PlaceColumns(st, row, col - 1, direction, size, data_bits_str)
    ELSE LET after == PlaceColumnPair(st, row, col, direction, 0, size, data_bits_str)
         IN  IF after.col < 0 THEN after.st
             ELSE PlaceColumns(after.st, after.row, after.col, after.direction,
                               size, data_bits_str)

\* the closing loop: any cell still empty becomes 0
FillRemaining(m) ==
    [r \in Rows(m) |-> [c \in Cols(m) |-> IF m[r][c] = None THEN 0 ELSE m[r][c]]]

place_data_bits(m, size, data_bits_str) ==
    LET start == [matrix |-> m, bit_idx |-> 0]
        placed == PlaceColumns(start, size - 1, size - 1, -1, size, data_bits_str)
    IN  FillRemaining(placed.matrix)

generate_qr_module(final_bitstream, v) ==
    place_data_bits(LayoutPatterns(v), get_size_from_version(v), final_bitstream)

-----------------------------------------------------------------------------
(* matrix_masking.py: create_function_pattern_matrix                       *)

\* mark_area(r_start, c_start, r_len, c_len) covers (r, c)
InArea(r, c, r_start, c_start, r_len, c_len) ==
    /\ r_start <= r /\ r < r_start + r_len
    /\ c_start <= c /\ c < c_start + c_len

\* the alignment centres create_function_pattern_matrix marks
AlignmentCentersMap(v, size) ==
    LET coords_ref_list == ALIGNMENT_PATTERN_COORDS_LOOKUP(v)
        finder_areas == { <<0, 0, 8, 8>>, <<0, size - 8, 8, 8>>, <<size - 8, 0, 8, 8>> }
        candidates ==
            { ctr \in coords_ref_list \X coords_ref_list :
                ~(\/ (ctr[1] = 6 /\ ctr[2] = 6)
                  \/ (ctr[1] = 6 /\ ctr[2] = size - 7)
                  \/ (ctr[1] = size - 7 /\ ctr[2] = 6)) }
        Overlaps(rc, cc, a) ==
            ~(rc + 2 < a[1] \/ rc - 2 > a[1] + a[3] - 1 \/
              cc + 2 < a[2] \/ cc - 2 > a[2] + a[4] - 1)
    IN  { ctr \in candidates : \A a \in finder_areas : ~Overlaps(ctr[1], ctr[2], a) }

create_function_pattern_matrix(v) ==
    LET size == get_size_from_version(v)
        centers == IF v >= 2 THEN AlignmentCentersMap(v, size) ELSE {}
    IN  [r \in 0..(size - 1) |-> [c \in 0..(size - 1) |->
            \/ InArea(r, c, 0, 0, 8, 8)
            \/ InArea(r, c, 0, size - 8, 8, 8)
            \/ InArea(r, c, size - 8, 0, 8, 8)
            \/ (r = 6 /\ c \in 8..(size - 9))
            \/ (c = 6 /\ r \in 8..(size - 9))
            \/ <<r, c>> \in PrimaryCells
            \/ (r = 8 /\ size - 1 - c \in 0..7)
            \/ (c = 8 /\ size - 1 - r \in 0..7)
            \/ \E ctr \in centers : r - ctr[1] \in -2..2 /\ c - ctr[2] \in -2..2]]

-----------------------------------------------------------------------------
(* matrix_masking.py: mask patterns                                        *)

\* variant: pattern 4 with the divisors of row and column exchanged
should_mask_Exchanged(pattern_id, r, c) ==
    CASE pattern_id = 0 -> (r + c) % 2 = 0
      [] pattern_id = 1 -> r % 2 = 0
      [] pattern_id = 2 -> c % 3 = 0
      [] pattern_id = 3 -> (r + c) % 3 = 0
      [] pattern_id = 4 -> ((r \div 3) + (c \div 2)) % 2 = 0
      [] pattern_id = 5 -> ((r * c) % 2) + ((r * c) % 3) = 0
      [] pattern_id = 6 -> (((r * c) % 2) + ((r * c) % 3)) % 2 = 0
      [] pattern_id = 7 -> (((r + c) % 2) + ((r * c) % 3)) % 2 = 0

should_mask(pattern_id, r, c) ==
    CASE pattern_id = 0 -> (r + c) % 2 = 0
      [] pattern_id = 1 -> r % 2 = 0
      [] pattern_id = 2 -> c % 3 = 0
      [] pattern_id = 3 -> (r + c) % 3 = 0
      [] pattern_id = 4 -> ((r \div 2) + (c \div 3)) % 2 = 0
      [] pattern_id = 5 -> ((r * c) % 2) + ((r * c) % 3) = 0
      [] pattern_id = 6 -> (((r * c) % 2) + ((r * c) % 3)) % 2 = 0
      [] pattern_id = 7 -> (((r + c) % 2) + ((r * c) % 3)) % 2 = 0

\* variant: the function map test negated, so that function cells are masked
apply_specific_mask_pattern_Inverted(pattern_id, m, function_map) ==
    [r \in Rows(m) |-> [c \in Cols(m) |->
        IF function_map[r][c] /\ IsInt(m[r][c]) /\ should_mask(pattern_id, r, c)
        THEN 1 - m[r][c]
        ELSE m[r][c]]]

\* variant: the function map is not consulted
apply_specific_mask_pattern_Everywhere(pattern_id, m, function_map) ==
    [r \in Rows(m) |-> [c \in Cols(m) |->
        IF IsInt(m[r][c]) /\ should_mask(pattern_id, r, c)
        THEN 1 - m[r][c]
        ELSE m[r][c]]]

apply_specific_mask_pattern(pattern_id, m, function_map) ==
    [r \in Rows(m) |-> [c \in Cols(m) |->
        IF ~function_map[r][c] /\ IsInt(m[r][c]) /\ should_mask(pattern_id, r, c)
        THEN 1 - m[r][c]
        ELSE m[r][c]]]

\* [val if isinstance(val, int) else 0 for val in row]
ToIntMatrix(m) ==
    [r \in Rows(m) |-> [c \in Cols(m) |-> IF IsInt(m[r][c]) THEN m[r][c] ELSE 0]]

-----------------------------------------------------------------------------
(* matrix_masking.py: penalty rules                                        *)

MatrixSize(m) == Cardinality(DOMAIN m)

\* cell pos of line a: row a when horizontal, column a otherwise
LineCell(m, horizontal, a, pos) == IF horizontal THEN m[a][pos] ELSE m[pos][a]

RunPenalty(count) == IF count >= 5 THEN 3 + (count - 5) ELSE 0

\* variant: the group that ends at the last cell of the line is not counted
RECURSIVE LineRunPenalty_NoLast(_, _, _, _, _, _, _, _)
LineRunPenalty_NoLast(m, horizontal, a, pos, size, count, current_val, penalty) ==
    IF pos >= size
    THEN penalty
    ELSE IF LineCell(m, horizontal, a, pos) = current_val
    THEN LineRunPenalty_NoLast(m, horizontal, a, pos + 1, size, count + 1,
                               current_val, penalty)
    ELSE LineRunPenalty_NoLast(m, horizontal, a, pos + 1, size, 1,
                               LineCell(m, horizontal, a, pos),
                               penalty + RunPenalty(count))

\* the scan of one row or column, from cell pos on
RECURSIVE LineRunPenalty(_, _, _, _, _, _, _, _)
LineRunPenalty(m, horizontal, a, pos, size, count, current_val, penalty) ==
    IF pos >= size
    THEN penalty + RunPenalty(count)
    ELSE IF LineCell(m, horizontal, a, pos) = current_val
    THEN LineRunPenalty(m, horizontal, a, pos + 1, size, count + 1, current_val, penalty)
    ELSE LineRunPenalty(m, horizontal, a, pos + 1, size, 1,
                        LineCell(m, horizontal, a, pos), penalty + RunPenalty(count))

RECURSIVE SumLineRuns(_, _, _, _)
SumLineRuns(m, horizontal, a, size) ==
    IF a >= size THEN 0
    ELSE LineRunPenalty(m, horizontal, a, 1, size, 1, LineCell(m, horizontal, a, 0), 0)
         + SumLineRuns(m, horizontal, a + 1, size)

calculate_penalty_rule1(m) ==
    LET size == MatrixSize(m)
    IN  SumLineRuns(m, TRUE, 0, size) + SumLineRuns(m, FALSE, 0, size)

calculate_penalty_rule2(m) ==
    LET size == MatrixSize(m)
        blocks == { rc \in (0..(size - 2)) \X (0..(size - 2)) :
                      /\ m[rc[1]][rc[2]] = m[rc[1] + 1][rc[2]]
                      /\ m[rc[1]][rc[2]] = m[rc[1]][rc[2] + 1]
                      /\ m[rc[1]][rc[2]] = m[rc[1] + 1][rc[2] + 1] }
    IN  3 * Cardinality(blocks)

patterns_to_check ==
    << <<0, 0, 0, 0, 1, 0, 1, 1, 1, 0, 1>>,
       <<1, 0, 1, 1, 1, 0, 1, 0, 0, 0, 0>> >>

\* the 11 cells of line a from cell start on equal one of the two patterns
WindowMatches(m, horizontal, a, start) ==
    \E p \in 1..2 :
        \A k \in 0..10 : LineCell(m, horizontal, a, start + k) = patterns_to_check[p][k + 1]

calculate_penalty_rule3(m) ==
    LET size == MatrixSize(m)
        pat_len == Len(patterns_to_check[1])
        windows == (0..(size - 1)) \X (0..(size - pat_len))
        in_rows == { w \in windows : WindowMatches(m, TRUE, w[1], w[2]) }
        in_cols == { w \in windows : WindowMatches(m, FALSE, w[1], w[2]) }
    IN  40 * (Cardinality(in_rows) + Cardinality(in_cols))

Abs(x) == IF x < 0 THEN -x ELSE x

\* variant: every started step of 5% counts, the quotient rounded up
calculate_penalty_rule4_Ceiling(m) ==
    LET size == MatrixSize(m)
        total_modules == size * size
        dark_modules == Cardinality({ rc \in (0..(size - 1)) \X (0..(size - 1)) :
                                        m[rc[1]][rc[2]] = 1 })
        penalty_factor == (Abs(100 * dark_modules - 50 * total_modules)
                             + 5 * total_modules - 1) \div (5 * total_modules)
    IN  IF size = 0 THEN 0 ELSE penalty_factor * 10

\* floor(abs(dark / total * 100.0 - 50) / 5) * 10.  The quotient is taken on
\* integers: for every size up to 29 and every count of dark modules the
\* double-precision value of the source has the same floor.
calculate_penalty_rule4(m) ==
    LET size == MatrixSize(m)
        total_modules == size * size
        dark_modules == Cardinality({ rc \in (0..(size - 1)) \X (0..(size - 1)) :
                                        m[rc[1]][rc[2]] = 1 })
        penalty_factor == Abs(100 * dark_modules - 50 * total_modules)
                            \div (5 * total_modules)
    IN  IF size = 0 THEN 0 ELSE penalty_factor * 10

\* penalties: the list of the four penalties; for an empty matrix the source
\* returns [10 ^ 18] * 4, where ^ is exclusive or: 24
calculate_penalties(m) ==
    IF MatrixSize(m) = 0
    THEN << Xor(10, 18), Xor(10, 18), Xor(10, 18), Xor(10, 18) >>
    ELSE << calculate_penalty_rule1(m), calculate_penalty_rule2(m),
            calculate_penalty_rule3(m), calculate_penalty_rule4(m) >>

\* the total score; the source also returns the four penalties
calculate_total_penalty_score(m) ==
    calculate_penalty_rule1(m) + calculate_penalty_rule2(m)
        + calculate_penalty_rule3(m) + calculate_penalty_rule4(m)

-----------------------------------------------------------------------------
(* matrix_masking.py: find_best_pattern                                    *)

\* variant: the comparison written with <= instead of <
ScoreImproves_OrEqual(score, best) == best.mask_id = -1 \/ score <= best.score

\* score < best_score, where best_score starts as float('inf') (no mask yet)
ScoreImproves(score, best) == best.mask_id = -1 \/ score < best.score

\* one iteration of the loop over p_id; best = [score, mask_id, matrix, scores]
FindBestStep(best, p_id, base, eval_matrix_base, function_map) ==
    LET current_masked == apply_specific_mask_pattern(p_id, eval_matrix_base, function_map)
        score == calculate_total_penalty_score(current_masked)
    IN  IF ScoreImproves(score, best)
        THEN [score |-> score, mask_id |-> p_id,
              matrix |-> apply_specific_mask_pattern(p_id, base, function_map),
              scores |-> Append(best.scores, score)]
        ELSE [best EXCEPT !.scores = Append(best.scores, score)]

RECURSIVE FindBestLoop(_, _, _, _, _)
FindBestLoop(best, p_id, base, eval_matrix_base, function_map) ==
    IF p_id > 7 THEN best
    ELSE FindBestLoop(FindBestStep(best, p_id, base, eval_matrix_base, function_map),
                      p_id + 1, base, eval_matrix_base, function_map)

\* [matrix, mask_id, scores]: scores are the totals printed for masks 0..7
find_best_pattern(base, function_map) ==
    LET eval_matrix_base == ToIntMatrix(base)
        start == [score |-> 0, mask_id |-> -1, matrix |-> EmptyMatrix, scores |-> << >>]
        best == FindBestLoop(start, 0, base, eval_matrix_base, function_map)
    IN  IF best.mask_id = -1
        THEN [matrix |-> apply_specific_mask_pattern(0, base, function_map),
              mask_id |-> 0, scores |-> best.scores]
        ELSE [matrix |-> best.matrix, mask_id |-> best.mask_id, scores |-> best.scores]

-----------------------------------------------------------------------------
(* matrix_layout.py: format string                                         *)

\* for j in range(num_gen_bits): data_as_ints[i + j] ^= gen_as_ints[j]
BchXorAt(data_as_ints, gen_as_ints, i) ==
    Evaluated([k \in 1..Len(data_as_ints) |->
        IF k >= i /\ k < i + Len(gen_as_ints)
        THEN (data_as_ints[k] + gen_as_ints[k - i + 1]) % 2
        ELSE data_as_ints[k]])

RECURSIVE BchDivideLoop(_, _, _, _)
BchDivideLoop(data_as_ints, gen_as_ints, i, last) ==
    IF i > last THEN data_as_ints
    ELSE BchDivideLoop(IF data_as_ints[i] = 1
                       THEN BchXorAt(data_as_ints, gen_as_ints, i)
                       ELSE data_as_ints,
                       gen_as_ints, i + 1, last)

\* variant: the division loop stops one bit early
bch_poly_divide_Short(message_poly_str, generator_poly_str, ecc_len) ==
    LET num_message_bits == Len(message_poly_str)
        data_as_ints == BchDivideLoop(message_poly_str, generator_poly_str,
                                      1, num_message_bits - ecc_len - 1)
    IN  SubSeq(data_as_ints, num_message_bits - ecc_len + 1, num_message_bits)

bch_poly_divide(message_poly_str, generator_poly_str, ecc_len) ==
    LET num_message_bits == Len(message_poly_str)
        data_as_ints == BchDivideLoop(message_poly_str, generator_poly_str,
                                      1, num_message_bits - ecc_len)
    IN  SubSeq(data_as_ints, num_message_bits - ecc_len + 1, num_message_bits)

generator_poly_str_bch == <<1, 0, 1, 0, 0, 1, 1, 0, 1, 1, 1>>

\* 0b101010000010010
final_xor_mask_val == 21522

\* variant: the mask indicator before the level indicator
get_format_string_MaskFirst(ecc_level_indicator_str, mask_pattern_indicator_str) ==
    LET data_5bit_str == mask_pattern_indicator_str \o ecc_level_indicator_str
        message_poly_str_for_bch == data_5bit_str \o Zeros(10)
        ecc_10bit_str == bch_poly_divide(message_poly_str_for_bch, generator_poly_str_bch, 10)
        format_info_no_mask_str == data_5bit_str \o ecc_10bit_str
        final_format_val == Xor(IntOfBits(format_info_no_mask_str), final_xor_mask_val)
    IN  FormatBits(final_format_val, 15)

get_format_string(ecc_level_indicator_str, mask_pattern_indicator_str) ==
    LET data_5bit_str == ecc_level_indicator_str \o mask_pattern_indicator_str
        message_poly_str_for_bch == data_5bit_str \o Zeros(10)
        ecc_10bit_str == bch_poly_divide(message_poly_str_for_bch, generator_poly_str_bch, 10)
        format_info_no_mask_str == data_5bit_str \o ecc_10bit_str
        final_format_val == Xor(IntOfBits(format_info_no_mask_str), final_xor_mask_val)
    IN  FormatBits(final_format_val, 15)

-----------------------------------------------------------------------------
(* matrix_layout.py: place_format_information, loop by loop.  bits is the  *)
(* format string; bits[i + 1] is bit i of the source.                      *)

\* for i, (r, c) in enumerate(FORMAT_INFO_COORDINATES_PRIMARY)
RECURSIVE PrimaryLoop(_, _, _)
PrimaryLoop(m, bits, i) ==
    IF i > 14 THEN m
    ELSE LET rc == FORMAT_INFO_COORDINATES_PRIMARY[i + 1]
         IN  PrimaryLoop([m EXCEPT ![rc[1]][rc[2]] = bits[i + 1]], bits, i + 1)

\* variant: the loop runs over nine cells, one beyond the reserved ones
RECURSIVE TopRightLoop_Nine(_, _, _, _)
TopRightLoop_Nine(m, bits, size, i) ==
    IF i > 8 THEN m
    ELSE TopRightLoop_Nine([m EXCEPT ![8][size - 1 - i] = bits[i + 1]], bits, size, i + 1)

\* for i in range(8): matrix[8][size - 1 - i] = bits[i]
RECURSIVE TopRightLoop(_, _, _, _)
TopRightLoop(m, bits, size, i) ==
    IF i > 7 THEN m
    ELSE TopRightLoop([m EXCEPT ![8][size - 1 - i] = bits[i + 1]], bits, size, i + 1)

\* idx = 8; for r_coord in range(8): skip 6; matrix[r_coord][8] = bits[idx]
RECURSIVE TopVerticalLoop(_, _, _, _)
TopVerticalLoop(m, bits, r_coord, i) ==
    IF r_coord > 7 THEN m
    ELSE IF r_coord = 6 THEN TopVerticalLoop(m, bits, r_coord + 1, i)
    ELSE TopVerticalLoop([m EXCEPT ![r_coord][8] = bits[i + 1]], bits, r_coord + 1, i + 1)

\* variant: the bottom-left copy written downwards from row size - 8
RECURSIVE BottomLeftLoop_Downwards(_, _, _, _)
BottomLeftLoop_Downwards(m, bits, size, i) ==
    IF i > 7 THEN m
    ELSE BottomLeftLoop_Downwards([m EXCEPT ![size - 8 + i][8] = bits[i + 1]],
                                  bits, size, i + 1)

\* idx = 0; for i in range(8): matrix[size - 1 - i][8] = bits[idx]
RECURSIVE BottomLeftLoop(_, _, _, _)
BottomLeftLoop(m, bits, size, i) ==
    IF i > 7 THEN m
    ELSE BottomLeftLoop([m EXCEPT ![size - 1 - i][8] = bits[i + 1]], bits, size, i + 1)

\* variant: the dark module is not forced
ForceDarkModule_Skip(m, v) == m

\* matrix[dark_row][dark_col] = 1
ForceDarkModule(m, v) ==
    LET dark_row == 4 * v + 9
        dark_col == 8
    IN  [m EXCEPT ![dark_row][dark_col] = 1]

\* one pass through the body of the last loop (for c_coord in range(8)):
\* [matrix, idx, returned]
LastLoopBody(m, bits, i, c, v) ==
    IF c = 6
    THEN [matrix |-> m, idx |-> i, returned |-> FALSE]
    ELSE [matrix |-> ForceDarkModule([m EXCEPT ![8][c] = bits[i + 1]], v),
          idx |-> i + 1,
          returned |-> TRUE]

\* place_format_information as a whole: the four loops, then the last loop
\* up to its return
place_format_information(m, bits, size) ==
    LET primary == PrimaryLoop(m, bits, 0)
        top_right == TopRightLoop(primary, bits, size, 0)
        top_vertical == TopVerticalLoop(top_right, bits, 0, 8)
        bottom_left == BottomLeftLoop(top_vertical, bits, size, 0)
    IN  LastLoopBody(bottom_left, bits, 8, 0, get_version_from_size(size)).matrix

-----------------------------------------------------------------------------
(* app.py: assemble_qr_matrix, stage by stage                              *)

\* the EC level indicator app.py passes: '01', Level L
EC_LEVEL_L == <<0, 1>>

Init ==
    /\ pc = "start"
    /\ text \in TextInputs
    /\ data_cw = << >>
    /\ version = 0
    /\ ecc_cw = << >>
    /\ final_bits = << >>
    /\ matrix = EmptyMatrix
    /\ mask_map = EmptyMatrix
    /\ masked_matrix = EmptyMatrix
    /\ best_mask = -1
    /\ scores = << >>
    /\ ec_level = EC_LEVEL_L
    /\ fmt = << >>
    /\ int_matrix = EmptyMatrix
    /\ c_coord = 0
    /\ idx = 0
    /\ final_matrix = EmptyMatrix
    /\ error = "none"
    /\ mask_arg = -1
    /\ calls = << >>
    /\ heap = << >>
    /\ solo = << >>

\* data_cw, version = encode_byte_mode(text); an error ends the call
Encode ==
    /\ pc = "start"
    /\ LET res == encode_byte_mode(text)
       IN  /\ error' = res.error
           /\ data_cw' = res.codewords
           /\ version' = res.version
           /\ pc' = IF res.error = "none" THEN "ecc" ELSE "failed"
    /\ UNCHANGED << mask_arg, calls, heap, solo, text, ecc_cw, final_bits, matrix, mask_map, masked_matrix,
                    best_mask, scores, ec_level, fmt, int_matrix, c_coord, idx,
                    final_matrix >>

\* ecc_cw = generate_error_correction([int(c, 2) for c in data_cw], version)
ErrorCorrection ==
    /\ pc = "ecc"
    /\ ecc_cw' = generate_error_correction(CodewordInts(data_cw), version)
    /\ pc' = "bits"
    /\ UNCHANGED << mask_arg, calls, heap, solo, text, data_cw, version, final_bits, matrix, mask_map,
                    masked_matrix, best_mask, scores, ec_level, fmt, int_matrix,
                    c_coord, idx, final_matrix, error >>

\* final_bits = ''.join(data_cw + ecc_cw), plus 7 zeros for version 2
AssembleBits ==
    /\ pc = "bits"
    /\ final_bits' = FinalBits(data_cw, ecc_cw, version)
    /\ pc' = "layout"
    /\ UNCHANGED << mask_arg, calls, heap, solo, text, data_cw, version, ecc_cw, matrix, mask_map,
                    masked_matrix, best_mask, scores, ec_level, fmt, int_matrix,
                    c_coord, idx, final_matrix, error >>

\* generate_qr_module: the function patterns and the reservations
Layout ==
    /\ pc = "layout"
    /\ matrix' = LayoutPatterns(version)
    /\ pc' = "place_data"
    /\ UNCHANGED << mask_arg, calls, heap, solo, text, data_cw, version, ecc_cw, final_bits, mask_map,
                    masked_matrix, best_mask, scores, ec_level, fmt, int_matrix,
                    c_coord, idx, final_matrix, error >>

\* generate_qr_module: place_data_bits, and the return
PlaceData ==
    /\ pc = "place_data"
    /\ matrix' = place_data_bits(matrix, get_size_from_version(version), final_bits)
    /\ pc' = "function_map"
    /\ UNCHANGED << mask_arg, calls, heap, solo, text, data_cw, version, ecc_cw, final_bits, mask_map,
                    masked_matrix, best_mask, scores, ec_level, fmt, int_matrix,
                    c_coord, idx, final_matrix, error >>

\* mask_map = create_function_pattern_matrix(version)
FunctionMap ==
    /\ pc = "function_map"
    /\ mask_map' = create_function_pattern_matrix(version)
    /\ pc' = "mask"
    /\ UNCHANGED << mask_arg, calls, heap, solo, text, data_cw, version, ecc_cw, final_bits, matrix,
                    masked_matrix, best_mask, scores, ec_level, fmt, int_matrix,
                    c_coord, idx, final_matrix, error >>

\* masked_matrix, best_mask = find_best_pattern(matrix, mask_map)
FindBestPattern ==
    /\ pc = "mask"
    /\ LET res == find_best_pattern(matrix, mask_map)
       IN  /\ masked_matrix' = res.matrix
           /\ best_mask' = res.mask_id
           /\ scores' = res.scores
    /\ pc' = "format_string"
    /\ UNCHANGED << mask_arg, calls, heap, solo, text, data_cw, version, ecc_cw, final_bits, matrix, mask_map,
                    ec_level, fmt, int_matrix, c_coord, idx, final_matrix, error >>

\* fmt = get_format_string('01', format(best_mask, '03b'))
FormatString ==
    /\ pc = "format_string"
    /\ fmt' = get_format_string(ec_level, FormatBits(best_mask, 3))
    /\ pc' = "to_int"
    /\ UNCHANGED << mask_arg, calls, heap, solo, text, data_cw, version, ecc_cw, final_bits, matrix, mask_map,
                    masked_matrix, best_mask, scores, ec_level, int_matrix,
                    c_coord, idx, final_matrix, error >>

\* int_matrix: integers kept, 'R' and anything else become 0
ConvertToInt ==
    /\ pc = "to_int"
    /\ int_matrix' = ToIntMatrix(masked_matrix)
    /\ pc' = "pfi_primary"
    /\ UNCHANGED << mask_arg, calls, heap, solo, text, data_cw, version, ecc_cw, final_bits, matrix, mask_map,
                    masked_matrix, best_mask, scores, ec_level, fmt, c_coord, idx,
                    final_matrix, error >>

\* place_format_information writes int_matrix in place
PfiUnchanged ==
    UNCHANGED << mask_arg, calls, heap, solo, text, data_cw, version, ecc_cw, final_bits, matrix, mask_map,
                 masked_matrix, best_mask, scores, ec_level, fmt, error >>

PfiPrimary ==
    /\ pc = "pfi_primary"
    /\ int_matrix' = PrimaryLoop(int_matrix, fmt, 0)
    /\ pc' = "pfi_top_right"
    /\ UNCHANGED << c_coord, idx, final_matrix >>
    /\ PfiUnchanged

PfiTopRight ==
    /\ pc = "pfi_top_right"
    /\ int_matrix' = TopRightLoop(int_matrix, fmt, get_size_from_version(version), 0)
    /\ pc' = "pfi_top_vertical"
    /\ UNCHANGED << c_coord, idx, final_matrix >>
    /\ PfiUnchanged

PfiTopVertical ==
    /\ pc = "pfi_top_vertical"
    /\ int_matrix' = TopVerticalLoop(int_matrix, fmt, 0, 8)
    /\ pc' = "pfi_bottom_left"
    /\ UNCHANGED << c_coord, idx, final_matrix >>
    /\ PfiUnchanged

\* the loop, then idx = 8 and the entry of the last loop
PfiBottomLeft ==
    /\ pc = "pfi_bottom_left"
    /\ int_matrix' = BottomLeftLoop(int_matrix, fmt, get_size_from_version(version), 0)
    /\ idx' = 8
    /\ c_coord' = 0
    /\ pc' = "pfi_last_loop"
    /\ UNCHANGED final_matrix
    /\ PfiUnchanged

\* one iteration of the last loop; a return inside it ends the function, and
\* the call of assemble_qr_matrix with it
PfiLastLoop ==
    /\ pc = "pfi_last_loop"
    /\ LET size == get_size_from_version(version)
           res == LastLoopBody(int_matrix, fmt, idx, c_coord,
                               get_version_from_size(size))
       IN  /\ int_matrix' = res.matrix
           /\ idx' = res.idx
           /\ IF res.returned
              THEN /\ final_matrix' = res.matrix
                   /\ c_coord' = c_coord
                   /\ pc' = "done"
              ELSE /\ final_matrix' = final_matrix
                   /\ c_coord' = c_coord + 1
                   /\ pc' = IF c_coord + 1 > 7 THEN "done" ELSE "pfi_last_loop"
    /\ PfiUnchanged

Next ==
    \/ Encode
    \/ ErrorCorrection
    \/ AssembleBits
    \/ Layout
    \/ PlaceData
    \/ FunctionMap
    \/ FindBestPattern
    \/ FormatString
    \/ ConvertToInt
    \/ PfiPrimary
    \/ PfiTopRight
    \/ PfiTopVertical
    \/ PfiBottomLeft
    \/ PfiLastLoop

Spec == Init /\ [][Next]_vars

-----------------------------------------------------------------------------
(* Format string generation and placement on their own: every EC level     *)
(* indicator, every mask id, both versions, on matrices as the earlier     *)
(* stages leave them (function patterns, reserved cells, masked data).     *)

BitStrings(n) == { FormatBits(k, n) : k \in 0..(Pow2(n) - 1) }

get_expected_bitstream_length_for_version(v) ==
    IF v = 1 THEN V1_EFFECTIVE_BITSTREAM_LENGTH ELSE V2_EFFECTIVE_BITSTREAM_LENGTH

FillBits(fill, v) ==
    Evaluated([i \in 1..get_expected_bitstream_length_for_version(v) |->
                  IF i % (fill + 2) = 0 THEN 1 ELSE 0])

InitFormat ==
    /\ pc = "format_string"
    /\ text = << >>
    /\ data_cw = << >>
    /\ version \in {1, 2}
    /\ ecc_cw = << >>
    /\ \E fill \in 0..MaxFill :
          /\ final_bits = FillBits(fill, version)
          /\ matrix = generate_qr_module(final_bits, version)
    /\ mask_map = create_function_pattern_matrix(version)
    /\ best_mask \in 0..7
    /\ masked_matrix = apply_specific_mask_pattern(best_mask, matrix, mask_map)
    /\ scores = << >>
    /\ ec_level \in BitStrings(2)
    /\ fmt = << >>
    /\ int_matrix = EmptyMatrix
    /\ c_coord = 0
    /\ idx = 0
    /\ final_matrix = EmptyMatrix
    /\ error = "none"
    /\ mask_arg = -1
    /\ calls = << >>
    /\ heap = << >>
    /\ solo = << >>

NextFormat ==
    \/ FormatString
    \/ ConvertToInt
    \/ PfiPrimary
    \/ PfiTopRight
    \/ PfiTopVertical
    \/ PfiBottomLeft
    \/ PfiLastLoop

SpecFormat == InitFormat /\ [][NextFormat]_vars

-----------------------------------------------------------------------------
(* find_best_pattern on its own: small square matrices whose data cells    *)
(* hold the bits of a seed, with three function cells in the corner (one   *)
(* dark, one reserved, one light).                                         *)

MaskSizes == {3, 5, 12}

PatternFunctionMap(n) ==
    [r \in 0..(n - 1) |-> [c \in 0..(n - 1) |->
        <<r, c>> \in { <<0, 0>>, <<0, 1>>, <<1, 0>> }]]

PatternMatrix(n, seed) ==
    [r \in 0..(n - 1) |-> [c \in 0..(n - 1) |->
        CASE <<r, c>> = <<0, 0>> -> 1
          [] <<r, c>> = <<0, 1>> -> R
          [] <<r, c>> = <<1, 0>> -> 0
          [] OTHER -> (seed \div Pow2((r * n + c) % PatternBits)) % 2]]

InitMask ==
    /\ pc = "mask"
    /\ text = << >>
    /\ data_cw = << >>
    /\ version = 0
    /\ ecc_cw = << >>
    /\ final_bits = << >>
    /\ \E n \in MaskSizes, seed \in 0..MaxMatrixSeed :
          /\ matrix = PatternMatrix(n, seed)
          /\ mask_map = PatternFunctionMap(n)
    /\ masked_matrix = EmptyMatrix
    /\ best_mask = -1
    /\ scores = << >>
    /\ ec_level = EC_LEVEL_L
    /\ fmt = << >>
    /\ int_matrix = EmptyMatrix
    /\ c_coord = 0
    /\ idx = 0
    /\ final_matrix = EmptyMatrix
    /\ error = "none"
    /\ mask_arg = -1
    /\ calls = << >>
    /\ heap = << >>
    /\ solo = << >>

NextMask == FindBestPattern

SpecMask == InitMask /\ [][NextMask]_vars

-----------------------------------------------------------------------------
(* generate_qr_module on its own: bitstreams up to MaxLengthError bits     *)
(* shorter or longer than the length expected for the version.             *)

\* the bitstream is at most this many bits too short or too long
MaxLengthError == 4

SizedBits(fill, v, length_error) ==
    Evaluated([i \in 1..(get_expected_bitstream_length_for_version(v) + length_error) |->
                  IF i % (fill + 2) = 0 THEN 1 ELSE 0])

InitPlace ==
    /\ pc = "layout"
    /\ text = << >>
    /\ data_cw = << >>
    /\ version \in {1, 2}
    /\ ecc_cw = << >>
    /\ \E fill \in 0..MaxFill, length_error \in (-MaxLengthError)..MaxLengthError :
          final_bits = SizedBits(fill, version, length_error)
    /\ matrix = EmptyMatrix
    /\ mask_map = EmptyMatrix
    /\ masked_matrix = EmptyMatrix
    /\ best_mask = -1
    /\ scores = << >>
    /\ ec_level = EC_LEVEL_L
    /\ fmt = << >>
    /\ int_matrix = EmptyMatrix
    /\ c_coord = 0
    /\ idx = 0
    /\ final_matrix = EmptyMatrix
    /\ error = "none"
    /\ mask_arg = -1
    /\ calls = << >>
    /\ heap = << >>
    /\ solo = << >>

NextPlace ==
    \/ Layout
    \/ PlaceData

SpecPlace == InitPlace /\ [][NextPlace]_vars

-----------------------------------------------------------------------------
(* calculate_total_penalty_score on its own: square 0/1 matrices whose     *)
(* cells hold the bits of a seed, row after row, and matrices of size      *)
(* FillSize with every number of dark cells.                               *)

PenaltySizes == {0, 5, 6, 12}

PenaltyMatrix(n, seed) ==
    [r \in 0..(n - 1) |-> [c \in 0..(n - 1) |->
        (seed \div Pow2((r * n + c) % PatternBits)) % 2]]

\* the size of the matrices filled with a given number of dark cells
FillSize == 10

\* the first dark cells, row after row, are dark and the others light
FilledMatrix(n, dark) ==
    [r \in 0..(n - 1) |-> [c \in 0..(n - 1) |-> IF r * n + c < dark THEN 1 ELSE 0]]

InitPenalty ==
    /\ pc = "score"
    /\ text = << >>
    /\ data_cw = << >>
    /\ version = 0
    /\ ecc_cw = << >>
    /\ final_bits = << >>
    /\ \/ \E n \in PenaltySizes, seed \in 0..MaxMatrixSeed :
             matrix = PenaltyMatrix(n, seed)
       \/ \E dark \in 0..(FillSize * FillSize) :
             matrix = FilledMatrix(FillSize, dark)
    /\ mask_map = EmptyMatrix
    /\ masked_matrix = EmptyMatrix
    /\ best_mask = -1
    /\ scores = << >>
    /\ ec_level = EC_LEVEL_L
    /\ fmt = << >>
    /\ int_matrix = EmptyMatrix
    /\ c_coord = 0
    /\ idx = 0
    /\ final_matrix = EmptyMatrix
    /\ error = "none"
    /\ mask_arg = -1
    /\ calls = << >>
    /\ heap = << >>
    /\ solo = << >>

\* total_score, penalties = calculate_total_penalty_score(matrix): scores
\* holds the four penalties
Score ==
    /\ pc = "score"
    /\ scores' = calculate_penalties(matrix)
    /\ pc' = "scored"
    /\ UNCHANGED << mask_arg, calls, heap, solo, text, data_cw, version, ecc_cw,
                    final_bits, matrix, mask_map, masked_matrix, best_mask, ec_level,
                    fmt, int_matrix, c_coord, idx, final_matrix, error >>

NextPenalty == Score

SpecPenalty == InitPenalty /\ [][NextPenalty]_vars

-----------------------------------------------------------------------------
(* apply_specific_mask_pattern on its own: a placed matrix of version 1    *)
(* or 2, the function map of either version, and mask ids from             *)
(* -MaskIdSlack to 7 + MaskIdSlack.                                        *)

\* mask ids up to this far outside 0..7 are tried
MaskIdSlack == 3

\* if not 0 <= pattern_id <= 7: raise ValueError
InvalidMaskId(id) == ~(0 <= id /\ id <= 7)

\* if not matrix or len(function_map) != rows
\*    or (0 < cols != len(function_map[0])): raise ValueError
DimensionMismatch(m, function_map) ==
    LET rows == MatrixSize(m)
        cols == IF rows > 0 THEN Cardinality(DOMAIN m[0]) ELSE 0
    IN  \/ rows = 0
        \/ MatrixSize(function_map) # rows
        \/ (0 < cols /\ cols # Cardinality(DOMAIN function_map[0]))

InitApply ==
    /\ pc = "apply"
    /\ text = << >>
    /\ data_cw = << >>
    /\ version \in {1, 2}
    /\ ecc_cw = << >>
    /\ \E fill \in 0..MaxFill : final_bits = SizedBits(fill, version, 0)
    /\ matrix = generate_qr_module(final_bits, version)
    /\ \E map_version \in {1, 2} : mask_map = create_function_pattern_matrix(map_version)
    /\ masked_matrix = EmptyMatrix
    /\ best_mask = -1
    /\ scores = << >>
    /\ ec_level = EC_LEVEL_L
    /\ fmt = << >>
    /\ int_matrix = EmptyMatrix
    /\ c_coord = 0
    /\ idx = 0
    /\ final_matrix = EmptyMatrix
    /\ error = "none"
    /\ mask_arg \in (-MaskIdSlack)..(7 + MaskIdSlack)
    /\ calls = << >>
    /\ heap = << >>
    /\ solo = << >>

\* masked = apply_specific_mask_pattern(pattern_id, matrix, mask_map)
ApplyMask ==
    /\ pc = "apply"
    /\ IF InvalidMaskId(mask_arg)
       THEN /\ error' = "mask_id"
            /\ pc' = "failed"
            /\ UNCHANGED masked_matrix
       ELSE IF DimensionMismatch(matrix, mask_map)
       THEN /\ error' = "dimension"
            /\ pc' = "failed"
            /\ UNCHANGED masked_matrix
       ELSE /\ masked_matrix' = apply_specific_mask_pattern(mask_arg, matrix, mask_map)
            /\ pc' = "applied"
            /\ UNCHANGED error
    /\ UNCHANGED << mask_arg, calls, heap, solo, text, data_cw, version, ecc_cw,
                    final_bits, matrix, mask_map, best_mask, scores, ec_level, fmt,
                    int_matrix, c_coord, idx, final_matrix >>

NextApply == ApplyMask

SpecApply == InitApply /\ [][NextApply]_vars

-----------------------------------------------------------------------------
(* Concurrent invocations of assemble_qr_matrix.  A matrix is a Python     *)
(* list: an object reached by reference and written in place.  heap holds  *)
(* the matrix objects, and the locals of an invocation hold references     *)
(* into it (0 before the object exists).                                   *)

\* the reference held before the object exists
NoRef == << 0, 0 >>

\* an object no live reference denotes: the next one its invocation builds
FreshRef(st, h) ==
    << st.id, Cardinality({ref \in DOMAIN h : ref[1] = st.id}) + 1 >>

\* variant: create_matrix hands out one module-level matrix
create_matrix_ref_Shared(st, h) == << 0, 1 >>

\* create_matrix returns a list built anew: a reference no one else holds
create_matrix_ref(st, h) == FreshRef(st, h)

\* out_matrix = [row[:] for row in matrix]: the copy masking works on
out_matrix_ref(st, h) == FreshRef(st, h)

\* variant: int_matrix is masked_matrix itself, not a list built anew
int_matrix_ref_Alias(st, h) == st.masked_matrix

\* int_matrix = [] filled row by row: a list built anew
int_matrix_ref(st, h) == FreshRef(st, h)

\* the object at ref now holds m
Store(h, ref, m) ==
    [r \in DOMAIN h \cup {ref} |-> IF r = ref THEN m ELSE h[r]]

\* the locals of an invocation at its entry
EntryLocals(i, t) ==
    [id |-> i, pc |-> "start", text |-> t, data_cw |-> << >>, version |-> 0,
     ecc_cw |-> << >>, final_bits |-> << >>, matrix |-> NoRef,
     mask_map |-> EmptyMatrix, masked_matrix |-> NoRef, best_mask |-> -1,
     fmt |-> << >>, int_matrix |-> NoRef, final_matrix |-> NoRef,
     steps |-> [step1 |-> NoRef, step2 |-> NoRef, step3 |-> NoRef,
                step4 |-> NoRef, final |-> NoRef],
     premask_value |-> EmptyMatrix, postmask_value |-> EmptyMatrix]

\* one stage of assemble_qr_matrix(text, explain=True) on locals st in heap
\* h: [st, heap]; premask_value and postmask_value record the matrices
\* generate_qr_module and find_best_pattern returned, as they were then
CallStep(st, h) ==
    CASE st.pc = "start" ->
            LET res == encode_byte_mode(st.text)
            IN  [st |-> [st EXCEPT !.data_cw = res.codewords,
                                   !.version = res.version,
                                   !.pc = "ecc"],
                 heap |-> h]
      [] st.pc = "ecc" ->
            [st |-> [st EXCEPT !.ecc_cw = generate_error_correction(
                                              CodewordInts(st.data_cw), st.version),
                               !.pc = "bits"],
             heap |-> h]
      [] st.pc = "bits" ->
            [st |-> [st EXCEPT !.final_bits = FinalBits(st.data_cw, st.ecc_cw, st.version),
                               !.pc = "layout"],
             heap |-> h]
      [] st.pc = "layout" ->
            LET ref == create_matrix_ref(st, h)
            IN  [st |-> [st EXCEPT !.matrix = ref, !.pc = "place_data"],
                 heap |-> Store(h, ref, LayoutPatterns(st.version))]
      [] st.pc = "place_data" ->
            LET placed == place_data_bits(h[st.matrix],
                                          get_size_from_version(st.version),
                                          st.final_bits)
            IN  [st |-> [st EXCEPT !.premask_value = placed, !.pc = "function_map"],
                 heap |-> Store(h, st.matrix, placed)]
      [] st.pc = "function_map" ->
            [st |-> [st EXCEPT !.mask_map = create_function_pattern_matrix(st.version),
                               !.pc = "mask"],
             heap |-> h]
      [] st.pc = "mask" ->
            LET res == find_best_pattern(h[st.matrix], st.mask_map)
                ref == out_matrix_ref(st, h)
            IN  [st |-> [st EXCEPT !.masked_matrix = ref,
                                   !.best_mask = res.mask_id,
                                   !.postmask_value = res.matrix,
                                   !.pc = "format_string"],
                 heap |-> Store(h, ref, res.matrix)]
      [] st.pc = "format_string" ->
            [st |-> [st EXCEPT !.fmt = get_format_string(EC_LEVEL_L,
                                                         FormatBits(st.best_mask, 3)),
                               !.pc = "to_int"],
             heap |-> h]
      [] st.pc = "to_int" ->
            LET ref == int_matrix_ref(st, h)
            IN  [st |-> [st EXCEPT !.int_matrix = ref, !.pc = "pfi"],
                 heap |-> Store(h, ref, ToIntMatrix(h[st.masked_matrix]))]
      [] st.pc = "pfi" ->
            LET written == place_format_information(
                               h[st.int_matrix], st.fmt,
                               get_size_from_version(st.version))
            IN  [st |-> [st EXCEPT !.final_matrix = st.int_matrix,
                                   !.pc = "explain"],
                 heap |-> Store(h, st.int_matrix, written)]
      [] st.pc = "explain" ->
            LET ref1 == create_matrix_ref(st, h)
                h1 == Store(h, ref1, generate_qr_module(Join(st.data_cw), st.version))
                ref2 == create_matrix_ref(st, h1)
                h2 == Store(h1, ref2, generate_qr_module(Join(st.data_cw \o st.ecc_cw),
                                                         st.version))
            IN  [st |-> [st EXCEPT !.steps = [step1 |-> ref1,
                                              step2 |-> ref2,
                                              step3 |-> st.matrix,
                                              step4 |-> st.masked_matrix,
                                              final |-> st.final_matrix],
                                   !.pc = "done"],
                 heap |-> h2]

CallIds == {1, 2}

\* "HELLO WORLD" (version 1) and a text of 18 characters (version 2)
CallTexts == { MkText(11, 0, 0), MkText(18, 0, 0) }

InitCalls ==
    /\ pc = "idle"
    /\ text = << >>
    /\ data_cw = << >>
    /\ version = 0
    /\ ecc_cw = << >>
    /\ final_bits = << >>
    /\ matrix = EmptyMatrix
    /\ mask_map = EmptyMatrix
    /\ masked_matrix = EmptyMatrix
    /\ best_mask = -1
    /\ scores = << >>
    /\ ec_level = EC_LEVEL_L
    /\ fmt = << >>
    /\ int_matrix = EmptyMatrix
    /\ c_coord = 0
    /\ idx = 0
    /\ final_matrix = EmptyMatrix
    /\ error = "none"
    /\ mask_arg = -1
    /\ \E t \in CallTexts :
          calls = [i \in CallIds |->
                      EntryLocals(i, IF i = 1 THEN MkText(11, 0, 0) ELSE t)]
    /\ heap = << >>
    /\ solo = [i \in CallIds |-> [st |-> calls[i], heap |-> << >>]]

\* invocation i runs its next stage; solo[i] runs the same stage on its own
CallStage(i) ==
    /\ calls[i].pc # "done"
    /\ LET res == CallStep(calls[i], heap)
       IN  /\ calls' = [calls EXCEPT ![i] = res.st]
           /\ heap' = res.heap
    /\ solo' = [solo EXCEPT ![i] = CallStep(solo[i].st, solo[i].heap)]
    /\ UNCHANGED << pc, text, data_cw, version, ecc_cw, final_bits, matrix, mask_map,
                    masked_matrix, best_mask, scores, ec_level, fmt, int_matrix,
                    c_coord, idx, final_matrix, error, mask_arg >>

NextCalls == \E i \in CallIds : CallStage(i)

SpecCalls == InitCalls /\ [][NextCalls]_vars

-----------------------------------------------------------------------------
(* Properties of byte-mode encoding (specification Spec).                  *)

Encoded == pc # "start"

NothingProduced ==
    /\ data_cw = << >>
    /\ version = 0
    /\ ecc_cw = << >>
    /\ final_bits = << >>
    /\ matrix = EmptyMatrix
    /\ masked_matrix = EmptyMatrix
    /\ int_matrix = EmptyMatrix
    /\ final_matrix = EmptyMatrix

\* C1: every text of at most 32 ISO-8859-1 bytes is accepted by
\* encode_byte_mode, with version 1 up to 17 bytes (17 included) and version 2
\* from 18 to 32 bytes.
C1_VersionSelected ==
    (Encoded /\ Latin1Encodable(text) /\ Len(text) <= 32)
        => /\ error = "none"
           /\ pc # "failed"
           /\ version = (IF Len(text) <= 17 THEN 1 ELSE 2)

C1_Witness == pc = "ecc" /\ Len(text) = 17 /\ version = 1 /\ error = "none"

\* C2: a text of more than 32 ISO-8859-1 bytes is rejected as too long, and
\* no codewords, version or matrix are produced.
C2_TooLongRejected ==
    (Encoded /\ Latin1Encodable(text) /\ Len(text) > 32)
        => /\ pc = "failed"
           /\ error = "PayloadTooLong"
           /\ NothingProduced

C2_Witness == pc = "failed" /\ Len(text) = 33 /\ error = "PayloadTooLong"

\* C3: a text with a character outside ISO-8859-1 is rejected as holding an
\* invalid character, whatever its length, and no codewords, version or
\* matrix are produced.
C3_InvalidCharacterRejected ==
    (Encoded /\ ~Latin1Encodable(text))
        => /\ pc = "failed"
           /\ error = "InvalidCharacter"
           /\ NothingProduced

C3_Witness == pc = "failed" /\ Len(text) > 32 /\ error = "InvalidCharacter"

-----------------------------------------------------------------------------
(* Properties of the final matrix (specification Spec).                    *)

\* C4: for every accepted input the final matrix is square with side
\* 17 + 4 * version, and every cell is 0 or 1: none is unset or reserved.
C4_FinalMatrixSquareBinary ==
    pc = "done" =>
        LET side == 17 + 4 * version
        IN  /\ version \in {1, 2}
            /\ DOMAIN final_matrix = 0..(side - 1)
            /\ \A r \in 0..(side - 1) :
                  /\ DOMAIN final_matrix[r] = 0..(side - 1)
                  /\ \A c \in 0..(side - 1) : final_matrix[r][c] \in {0, 1}

C4_Witness == pc = "done" /\ version = 2 /\ MatrixSize(final_matrix) = 25

\* C5: for every accepted input the cell (4 * version + 9, 8) of the final
\* matrix is dark, whatever format bit was written over it.
C5_DarkModule == pc = "done" => final_matrix[4 * version + 9][8] = 1

\* format bit 7, the one the bottom-left copy writes on the dark module, is 0
C5_Witness == pc = "done" /\ fmt[8] = 0 /\ final_matrix[4 * version + 9][8] = 1

-----------------------------------------------------------------------------
(* Properties of format placement (specification SpecFormat).              *)

\* C6: after place_format_information has returned, cell i of the ordered
\* primary list holds format bit i, for every i in 0..14.
C6_PrimaryCopy ==
    pc = "done" =>
        \A i \in 0..14 :
            LET rc == FORMAT_INFO_COORDINATES_PRIMARY[i + 1]
            IN  final_matrix[rc[1]][rc[2]] = fmt[i + 1]

\* C7: after place_format_information has returned, cell (8, N-1-i) holds
\* format bit i for i in 0..7, and cell (N-1-i, 8) holds format bit i for
\* i in 0..6.
C7_SecondaryCopies ==
    pc = "done" =>
        LET size == MatrixSize(final_matrix)
        IN  /\ \A i \in 0..7 : final_matrix[8][size - 1 - i] = fmt[i + 1]
            /\ \A i \in 0..6 : final_matrix[size - 1 - i][8] = fmt[i + 1]

C7_Witness ==
    /\ pc = "done"
    /\ version = 2
    /\ final_matrix[8][24] = fmt[1]
    /\ final_matrix[24][8] = fmt[1]
    /\ fmt[1] # fmt[7]

\* C8: place_format_information forces the dark module and returns only
\* after its last loop has run through all columns 0..7 of row 8 and written
\* all seven of its cells (bits 8..14).
C8_LastLoopCompletes == pc = "done" => (c_coord = 7 /\ idx = 15)

\* the divisor of the BCH(15,5) code and the XOR pattern, as bit strings
BchGenerator == IntOfBits(<<1, 0, 1, 0, 0, 1, 1, 0, 1, 1, 1>>)
FormatXorPattern == IntOfBits(<<1, 0, 1, 0, 1, 0, 0, 0, 0, 0, 1, 0, 0, 1, 0>>)

\* the product of q and g as polynomials over GF(2)
RECURSIVE Gf2Product(_, _)
Gf2Product(q, g) ==
    IF q = 0 THEN 0
    ELSE Xor(IF q % 2 = 1 THEN g ELSE 0, 2 * Gf2Product(q \div 2, g))

\* C9: get_format_string returns 15 bits f such that f XOR 101010000010010
\* is a multiple over GF(2) of the generator 10100110111 and has the five
\* bits ec || mask as its most significant bits.
C9_FormatStringBch ==
    fmt # << >> =>
        LET unmasked == Xor(IntOfBits(fmt), FormatXorPattern)
        IN  /\ Len(fmt) = 15
            /\ \A i \in 1..15 : fmt[i] \in {0, 1}
            /\ unmasked \div Pow2(10) = IntOfBits(ec_level \o FormatBits(best_mask, 3))
            /\ \E q \in 0..31 : Gf2Product(q, BchGenerator) = unmasked

C9_Witness ==
    /\ pc = "to_int"
    /\ ec_level = <<1, 1>>
    /\ best_mask = 7
    /\ Len(fmt) = 15

-----------------------------------------------------------------------------
(* Properties of mask selection (specification SpecMask).                  *)

\* the total penalty of each mask 0..7 on the matrix, reserved cells light
MaskScores(m, function_map) ==
    Evaluated([p \in 1..8 |->
        calculate_total_penalty_score(
            apply_specific_mask_pattern(p - 1, ToIntMatrix(m), function_map))])

\* C10: find_best_pattern returns a mask id in 0..7 of minimal total penalty,
\* the lowest such id when several masks share the minimum, and the input
\* matrix with exactly that mask applied.
C10_BestMask ==
    pc = "format_string" =>
        LET totals == MaskScores(matrix, mask_map)
        IN  /\ best_mask \in 0..7
            /\ \A p \in 0..7 :
                  /\ totals[best_mask + 1] <= totals[p + 1]
                  /\ totals[p + 1] = totals[best_mask + 1] => best_mask <= p
            /\ masked_matrix = apply_specific_mask_pattern(best_mask, matrix, mask_map)

\* a mask other than 0 is chosen, and a later mask has the same total
C10_Witness ==
    /\ pc = "format_string"
    /\ best_mask > 0
    /\ \E p \in 0..7 : p > best_mask /\ scores[p + 1] = scores[best_mask + 1]
    /\ masked_matrix # matrix

-----------------------------------------------------------------------------
(* Properties of mask application (specification Spec).                    *)

\* out is m with the data cells (function map false) flipped exactly where
\* the predicate of mask p is true, and every other cell as it was
MaskedOnlyData(p, m, function_map, out) ==
    /\ DOMAIN out = DOMAIN m
    /\ \A r \in Rows(m) :
          /\ DOMAIN out[r] = DOMAIN m[r]
          /\ \A c \in Cols(m) :
                /\ function_map[r][c] => out[r][c] = m[r][c]
                /\ m[r][c] = R => out[r][c] = R
                /\ ~function_map[r][c] =>
                      out[r][c] = (IF should_mask(p, r, c) THEN 1 - m[r][c] ELSE m[r][c])

\* C11: for every mask id 0..7, apply_specific_mask_pattern leaves every
\* function-map cell as it was, the reserved format cells and the dark module
\* included, and flips a data cell exactly when the mask predicate is true at
\* its row and column.
C11_MaskFrame ==
    pc = "format_string" =>
        /\ \A p \in 0..7 :
              LET out == apply_specific_mask_pattern(p, matrix, mask_map)
              IN  /\ MaskedOnlyData(p, matrix, mask_map, out)
                  /\ out[4 * version + 9][8] = matrix[4 * version + 9][8]
        /\ MaskedOnlyData(best_mask, matrix, mask_map, masked_matrix)

C11_Witness ==
    /\ pc = "format_string"
    /\ version = 2
    /\ best_mask = 7
    /\ matrix[8][0] = R
    /\ masked_matrix[8][0] = R
    /\ masked_matrix[17][8] = matrix[17][8]
    /\ masked_matrix # matrix

-----------------------------------------------------------------------------
(* Properties of the data codewords (specification Spec).                  *)

Accepted == pc \notin {"start", "failed"}

\* the number D of data codewords of the selected version
DataCodewordCount == IF version = 1 THEN 19 ELSE 34

\* C12: for every accepted payload the bit stream assembled by
\* encode_byte_mode has exactly 8 * D bits before it is split, so exactly D
\* codewords of 8 bits are returned and the slice to D codewords drops nothing.
C12_ExactlyDCodewords ==
    Accepted =>
        LET bit_stream == DataBitStream(Latin1Bytes(text), DataCodewordCount)
        IN  /\ Len(bit_stream) = 8 * DataCodewordCount
            /\ Len(SplitCodewords(bit_stream)) = DataCodewordCount
            /\ Len(data_cw) = DataCodewordCount
            /\ \A k \in 1..Len(data_cw) : Len(data_cw[k]) = 8
            /\ Join(data_cw) = bit_stream

C12_Witness ==
    /\ pc = "ecc"
    /\ Len(text) = 32
    /\ Len(data_cw) = 34
    /\ Len(Join(data_cw)) = 272

\* the codewords as numbers
CodewordValues(codewords) ==
    Evaluated([k \in 1..Len(codewords) |-> IntOfBits(codewords[k])])

\* the payload read back from the codewords: the 8-bit count after the mode
\* indicator, then that many bytes
DecodePayload(codewords) ==
    LET bits == Join(codewords)
        count == IntOfBits(SubSeq(bits, 5, 12))
    IN  Evaluated([i \in 1..count |->
            IntOfBits(SubSeq(bits, 8 * i + 5, 8 * i + 12))])

\* C13: for every accepted payload of n bytes the concatenated data codewords
\* start with 0100, then n as an 8-bit number, then the n payload bytes in
\* order, most significant bit first; reading the count and the bytes back
\* recovers the payload.  For "A" the codewords start 0x40, 0x14, 0x10, 0xEC,
\* 0x11.
C13_HeaderAndPayload ==
    Accepted =>
        LET bits == Join(data_cw)
            n == Len(text)
        IN  /\ SubSeq(bits, 1, 4) = <<0, 1, 0, 0>>
            /\ SubSeq(bits, 5, 12) = FormatBits(n, 8)
            /\ \A i \in 1..n :
                  \A j \in 1..8 :
                      bits[8 * i + 4 + j] = (text[i] \div Pow2(8 - j)) % 2
            /\ DecodePayload(data_cw) = text
            /\ text = <<65>> =>
                  SubSeq(CodewordValues(data_cw), 1, 5) = <<64, 20, 16, 236, 17>>

C13_Witness ==
    /\ pc = "ecc"
    /\ text = <<65>>
    /\ IntOfBits(data_cw[2]) = 20
    /\ DecodePayload(data_cw) = <<65>>

\* C14: for every accepted payload of n bytes the data codewords at 0-based
\* indices n+2 .. D-1 are pad codewords alternating 0xEC, 0x11, starting with
\* 0xEC; for the empty payload the codewords are 0x40, 0x00, then 0xEC, 0x11
\* alternating up to 19 codewords.
C14_PadCodewords ==
    Accepted =>
        LET values == CodewordValues(data_cw)
            n == Len(text)
        IN  /\ \A k \in (n + 2)..(DataCodewordCount - 1) :
                  values[k + 1] = (IF (k - (n + 2)) % 2 = 0 THEN 236 ELSE 17)
            /\ text = << >> =>
                  /\ Len(values) = 19
                  /\ values[1] = 64
                  /\ values[2] = 0
                  /\ \A k \in 3..19 : values[k] = (IF k % 2 = 1 THEN 236 ELSE 17)

C14_Witness ==
    /\ pc = "ecc"
    /\ text = << >>
    /\ CodewordValues(data_cw)[3] = 236
    /\ CodewordValues(data_cw)[4] = 17
    /\ CodewordValues(data_cw)[19] = 236

\* "HELLO WORLD"
HelloWorld == <<72, 69, 76, 76, 79, 32, 87, 79, 82, 76, 68>>

\* the error correction codewords have been generated
EccGenerated == Accepted /\ pc # "ecc"

\* C15, as stated: for "HELLO WORLD" the version is 1, the first three data
\* codewords are 0x40, 0xB5, 0x94 and data plus error correction codewords
\* number 26.
C15_HelloWorldAsStated ==
    (text = HelloWorld /\ EccGenerated) =>
        /\ version = 1
        /\ SubSeq(CodewordValues(data_cw), 1, 3) = <<64, 181, 148>>
        /\ Len(data_cw \o ecc_cw) = 26

\* C15, amended: for "HELLO WORLD" the version is 1, the first three data
\* codewords are 0x40, 0xB4, 0x84 (0100, then the count 00001011, then 'H' =
\* 01001000 and the high half of 'E') and data plus error correction
\* codewords number 26.
C15_HelloWorld ==
    (text = HelloWorld /\ EccGenerated) =>
        /\ version = 1
        /\ SubSeq(CodewordValues(data_cw), 1, 3) = <<64, 180, 132>>
        /\ Len(data_cw \o ecc_cw) = 26

C15_Witness ==
    /\ text = HelloWorld
    /\ pc = "bits"
    /\ Len(data_cw) = 19
    /\ Len(ecc_cw) = 7
    /\ CodewordValues(data_cw)[2] = 180

-----------------------------------------------------------------------------
(* Properties of the final bitstream (specification Spec).                 *)

\* the bitstream has been assembled
BitsAssembled == EccGenerated /\ pc # "bits"

\* the number E of error correction codewords and the number of remainder bits
EccCodewordCount == IF version = 1 THEN 7 ELSE 10
RemainderBits == IF version = 1 THEN 0 ELSE 7

\* C16: for every accepted input the bitstream handed to module placement is
\* the D data codewords, then the E error correction codewords, each most
\* significant bit first, then the remainder zero bits; its length is
\* 8 * (D + E) + R: 208 for version 1 and 359 for version 2.
C16_FinalBitstream ==
    BitsAssembled =>
        /\ Len(data_cw) = DataCodewordCount
        /\ Len(ecc_cw) = EccCodewordCount
        /\ \A k \in 1..Len(ecc_cw) :
              /\ Len(ecc_cw[k]) = 8
              /\ \A j \in 1..8 : ecc_cw[k][j] \in {0, 1}
        /\ Len(final_bits) = 8 * (DataCodewordCount + EccCodewordCount) + RemainderBits
        /\ Len(final_bits) = (IF version = 1 THEN 208 ELSE 359)
        /\ \A k \in 1..(DataCodewordCount + EccCodewordCount) :
              SubSeq(final_bits, 8 * k - 7, 8 * k) = (data_cw \o ecc_cw)[k]
        /\ \A j \in 1..RemainderBits :
              final_bits[8 * (DataCodewordCount + EccCodewordCount) + j] = 0

C16_Witness ==
    /\ pc = "layout"
    /\ version = 2
    /\ Len(final_bits) = 359
    /\ SubSeq(final_bits, 353, 359) = <<0, 0, 0, 0, 0, 0, 0>>

-----------------------------------------------------------------------------
(* Properties of data placement (specification Spec).                      *)

\* the cells of m that satisfy Test(m, r, c)
CellsWhere(m, Test(_, _, _)) ==
    { rc \in (DOMAIN m) \X (DOMAIN m) : Test(m, rc[1], rc[2]) }

IsFalseAt(m, r, c) == m[r][c] = FALSE
IsNoneAt(m, r, c) == m[r][c] = None

\* C17: for both versions the number of cells where the function map is
\* false equals the bitstream length (208 for version 1, 359 for version 2),
\* so place_data_bits consumes every bit of the bitstream and zero-fills no
\* data cell.
C17_DataCellsMatchBitstream ==
    /\ pc = "place_data" =>
          LET size == get_size_from_version(version)
              function_map == create_function_pattern_matrix(version)
              placed == PlaceColumns([matrix |-> matrix, bit_idx |-> 0],
                                     size - 1, size - 1, -1, size, final_bits)
          IN  /\ Cardinality(CellsWhere(function_map, IsFalseAt)) = Len(final_bits)
              /\ CellsWhere(matrix, IsNoneAt) = CellsWhere(function_map, IsFalseAt)
              /\ placed.bit_idx = Len(final_bits)
              /\ CellsWhere(placed.matrix, IsNoneAt) = {}
    /\ pc = "mask" =>
          /\ Cardinality(CellsWhere(mask_map, IsFalseAt))
                = (IF version = 1 THEN 208 ELSE 359)
          /\ Cardinality(CellsWhere(mask_map, IsFalseAt)) = Len(final_bits)
          /\ \A rc \in CellsWhere(mask_map, IsFalseAt) : matrix[rc[1]][rc[2]] \in {0, 1}

C17_Witness ==
    /\ pc = "mask"
    /\ version = 2
    /\ Cardinality(CellsWhere(mask_map, IsFalseAt)) = 359
    /\ Len(final_bits) = 359
    /\ matrix[24][24] = final_bits[1]

-----------------------------------------------------------------------------
(* Properties of generate_qr_module on any bitstream (specification        *)
(* SpecPlace).                                                             *)

\* C18: when the bitstream handed to module placement does not have the
\* length expected for the version, encoding aborts with an internal
\* invariant failure: the bits are not zero-padded or truncated and no matrix
\* is produced.
C18_WrongLengthAborts ==
    (/\ pc = "function_map"
     /\ Len(final_bits) # get_expected_bitstream_length_for_version(version))
        => /\ error = "InternalInvariant"
           /\ matrix = EmptyMatrix

-----------------------------------------------------------------------------
(* Properties of the function patterns of the final matrix (specification  *)
(* Spec).                                                                  *)

\* a reference matrix that depends only on the version and a mask id: the
\* function patterns of the version, with the format information of the
\* Level L symbol of that mask placed as place_format_information places it
GoldenReference(v, mask_id) ==
    place_format_information(ToIntMatrix(LayoutPatterns(v)),
                             get_format_string(EC_LEVEL_L, FormatBits(mask_id, 3)),
                             get_size_from_version(v))

IsTrueAt(m, r, c) == m[r][c] = TRUE
IsReservedAt(m, r, c) == m[r][c] = R

\* the cells reserved for format information, the dark module excepted
FormatCells(v) == CellsWhere(LayoutPatterns(v), IsReservedAt) \ { <<4 * v + 9, 8>> }

\* C19, as stated: for every accepted input every cell of the final matrix at
\* which the function map is true equals the cell of a fixed reference matrix
\* that depends only on the version (here the one of the mask 0 symbol),
\* whatever the text and the chosen mask.
C19_FunctionCellsFixedAsStated ==
    pc = "done" =>
        LET reference == GoldenReference(version, 0)
        IN  \A rc \in CellsWhere(mask_map, IsTrueAt) :
                final_matrix[rc[1]][rc[2]] = reference[rc[1]][rc[2]]

\* C19, amended: for every accepted input every cell of the final matrix at
\* which the function map is true equals the cell of a reference matrix that
\* depends only on the version and the chosen mask; the cells that are not
\* format information cells (finder, separator, timing and alignment cells,
\* and the dark module) depend only on the version.
C19_FunctionCellsFixed ==
    pc = "done" =>
        LET reference == GoldenReference(version, 0)
            of_mask == GoldenReference(version, best_mask)
        IN  /\ \A rc \in CellsWhere(mask_map, IsTrueAt) :
                  final_matrix[rc[1]][rc[2]] = of_mask[rc[1]][rc[2]]
            /\ \A rc \in CellsWhere(mask_map, IsTrueAt) \ FormatCells(version) :
                  final_matrix[rc[1]][rc[2]] = reference[rc[1]][rc[2]]

\* a format information cell differs from the mask 0 reference, a timing
\* cell does not
C19_Witness ==
    /\ pc = "done"
    /\ best_mask = 3
    /\ final_matrix[8][3] # GoldenReference(version, 0)[8][3]
    /\ final_matrix[6][8] = GoldenReference(version, 0)[6][8]

\* a 7x7 finder pattern with its top-left corner at (r0, c0): dark outer
\* ring, light inner ring, 3x3 dark core
FinderAt(m, r0, c0) ==
    \A dr \in 0..6, dc \in 0..6 :
        m[r0 + dr][c0 + dc] =
            (IF dr \in {0, 6} \/ dc \in {0, 6} THEN 1
             ELSE IF dr \in {1, 5} \/ dc \in {1, 5} THEN 0
             ELSE 1)

\* the cells of the 8x8 corner at (r0, c0) outside the finder at (fr, fc) are
\* light
SeparatorAround(m, r0, c0, fr, fc) ==
    \A dr \in 0..7, dc \in 0..7 :
        (r0 + dr \notin fr..(fr + 6) \/ c0 + dc \notin fc..(fc + 6))
            => m[r0 + dr][c0 + dc] = 0

\* a 5x5 alignment pattern centred at (r0, c0): dark ring, light ring, dark
\* centre
AlignmentAt(m, r0, c0) ==
    \A dr \in -2..2, dc \in -2..2 :
        m[r0 + dr][c0 + dc] =
            (IF dr \in {-2, 2} \/ dc \in {-2, 2} THEN 1
             ELSE IF dr = 0 /\ dc = 0 THEN 1
             ELSE 0)

\* C20: for every accepted input the final matrix has the three 7x7 finder
\* patterns at (0,0), (0,N-7) and (N-7,0) with light separators around them;
\* the timing cells of row 6 and column 6 at indices 8..N-9 are dark exactly
\* when the index is even; version 2 has an intact 5x5 alignment pattern
\* centred at (18,18) and version 1 has no alignment pattern.
C20_FunctionPatternsPresent ==
    pc = "done" =>
        LET N == MatrixSize(final_matrix)
        IN  /\ FinderAt(final_matrix, 0, 0)
            /\ FinderAt(final_matrix, 0, N - 7)
            /\ FinderAt(final_matrix, N - 7, 0)
            /\ SeparatorAround(final_matrix, 0, 0, 0, 0)
            /\ SeparatorAround(final_matrix, 0, N - 8, 0, N - 7)
            /\ SeparatorAround(final_matrix, N - 8, 0, N - 7, 0)
            /\ \A i \in 8..(N - 9) :
                  /\ final_matrix[6][i] = (IF i % 2 = 0 THEN 1 ELSE 0)
                  /\ final_matrix[i][6] = (IF i % 2 = 0 THEN 1 ELSE 0)
            /\ version = 2 => AlignmentAt(final_matrix, 18, 18)
            /\ version = 1 => \A r \in 9..(N - 1), c \in 9..(N - 1) : ~mask_map[r][c]

C20_Witness ==
    /\ pc = "done"
    /\ version = 2
    /\ AlignmentAt(final_matrix, 18, 18)
    /\ FinderAt(final_matrix, 18, 0)
    /\ final_matrix[6][16] = 1

-----------------------------------------------------------------------------
(* Properties of the error correction codewords (specification Spec).      *)

\* the value at x of the polynomial with these coefficients, high degree
\* first, by Horner's rule in GF(256); the accumulator, never negative, is
\* read at each step so that it is evaluated before the next one
RECURSIVE PolyEval(_, _, _, _)
PolyEval(coeffs, x, k, acc) ==
    IF k > Len(coeffs) \/ acc < 0 THEN acc
    ELSE PolyEval(coeffs, x, k + 1, Xor(gf_mul(acc, x), coeffs[k]))

\* C21: the D data codewords followed by the output of
\* generate_error_correction, read as a polynomial over GF(256) with
\* primitive polynomial 0x11D, evaluate to zero at alpha^0 .. alpha^(E-1),
\* and exactly E codewords of 8 bits are returned (E = 7 for version 1, 10
\* for version 2).
C21_CodewordHasRoots ==
    pc = "bits" =>
        /\ Len(ecc_cw) = EccCodewordCount
        /\ \A k \in 1..Len(ecc_cw) :
              /\ Len(ecc_cw[k]) = 8
              /\ \A j \in 1..8 : ecc_cw[k][j] \in {0, 1}
        /\ \A i \in 0..(EccCodewordCount - 1) :
              PolyEval(CodewordValues(data_cw \o ecc_cw), gf_pow_alpha(i), 1, 0) = 0

C21_Witness ==
    /\ pc = "bits"
    /\ version = 2
    /\ Len(data_cw) = 34
    /\ Len(ecc_cw) = 10
    /\ \E k \in 1..10 : IntOfBits(ecc_cw[k]) > 1
    /\ PolyEval(CodewordValues(data_cw \o ecc_cw), gf_pow_alpha(9), 1, 0) = 0

-----------------------------------------------------------------------------
(* Properties of concurrent invocations (specification SpecCalls).         *)

\* the matrix a reference denotes
Deref(h, ref) == IF ref \in DOMAIN h THEN h[ref] ELSE EmptyMatrix

\* what an invocation sees: its locals, matrices read through the heap
LocalView(st, h) ==
    [pc |-> st.pc, text |-> st.text, version |-> st.version,
     data_cw |-> st.data_cw, ecc_cw |-> st.ecc_cw, final_bits |-> st.final_bits,
     mask_map |-> st.mask_map, best_mask |-> st.best_mask, fmt |-> st.fmt,
     matrix |-> Deref(h, st.matrix),
     masked_matrix |-> Deref(h, st.masked_matrix),
     int_matrix |-> Deref(h, st.int_matrix),
     final_matrix |-> Deref(h, st.final_matrix),
     step1 |-> Deref(h, st.steps.step1),
     step2 |-> Deref(h, st.steps.step2)]

\* the matrix objects an invocation holds
HeldRefs(st) ==
    {st.matrix, st.masked_matrix, st.int_matrix, st.final_matrix,
     st.steps.step1, st.steps.step2} \ {NoRef}

\* C22: two invocations of the pipeline, interleaved in any order of their
\* stages, hold disjoint matrix objects; at every stage each sees exactly
\* what it sees when run alone, so each returns the result of its run alone;
\* and two invocations of the same text return the same matrix, version and
\* mask id.
C22_InvocationsIndependent ==
    calls # << >> =>
        /\ \A i \in CallIds :
              LocalView(calls[i], heap) = LocalView(solo[i].st, solo[i].heap)
        /\ HeldRefs(calls[1]) \cap HeldRefs(calls[2]) = {}
        /\ (/\ calls[1].pc = "done"
            /\ calls[2].pc = "done"
            /\ calls[1].text = calls[2].text)
           => /\ Deref(heap, calls[1].final_matrix) = Deref(heap, calls[2].final_matrix)
              /\ calls[1].version = calls[2].version
              /\ calls[1].best_mask = calls[2].best_mask

\* two invocations of one text, the first returned and the second about to
\* place its format bits: two objects, one finished and one not
C22_Witness ==
    /\ calls # << >>
    /\ calls[1].pc = "done"
    /\ calls[2].pc = "pfi"
    /\ calls[1].text = calls[2].text
    /\ calls[1].final_matrix # calls[2].int_matrix
    /\ Deref(heap, calls[2].int_matrix) = ToIntMatrix(calls[1].postmask_value)
    /\ Deref(heap, calls[1].final_matrix) # Deref(heap, calls[2].int_matrix)
    /\ Rows(Deref(heap, calls[1].final_matrix)) = 0..(get_size_from_version(calls[1].version) - 1)

\* find_best_pattern has returned in invocation st
PatternFound(st) ==
    st.pc \in {"format_string", "to_int", "pfi", "explain", "done"}

\* C23: with explain=True the result holds the pre-mask matrix as step3, the
\* post-mask pre-format matrix as step4 and the final matrix, three distinct
\* objects; from the return of find_best_pattern on, the pre-mask matrix is
\* as generate_qr_module returned it, and the post-mask matrix is as
\* find_best_pattern returned it: place_format_information alters neither.
C23_SnapshotsKept ==
    calls # << >> =>
        \A i \in CallIds :
            LET st == calls[i]
            IN  /\ PatternFound(st) =>
                      /\ Deref(heap, st.matrix) = st.premask_value
                      /\ Deref(heap, st.masked_matrix) = st.postmask_value
                /\ st.pc = "done" =>
                      /\ st.steps.step3 = st.matrix
                      /\ st.steps.step4 = st.masked_matrix
                      /\ st.steps.final = st.final_matrix
                      /\ Cardinality({st.steps.step3, st.steps.step4,
                                      st.steps.final}) = 3
                      /\ Deref(heap, st.steps.step3) =
                             generate_qr_module(st.final_bits, st.version)
                      /\ Deref(heap, st.steps.step4) =
                             apply_specific_mask_pattern(
                                 st.best_mask,
                                 generate_qr_module(st.final_bits, st.version),
                                 create_function_pattern_matrix(st.version))
                      /\ Deref(heap, st.steps.final) =
                             place_format_information(
                                 ToIntMatrix(Deref(heap, st.steps.step4)), st.fmt,
                                 get_size_from_version(st.version))

\* an invocation returned three snapshots that differ from one another: the
\* mask changed data cells, the format bits changed reserved cells
C23_Witness ==
    /\ calls # << >>
    /\ calls[1].pc = "done"
    /\ Deref(heap, calls[1].steps.step3) = calls[1].premask_value
    /\ Deref(heap, calls[1].steps.step4) = calls[1].postmask_value
    /\ calls[1].premask_value # calls[1].postmask_value
    /\ Deref(heap, calls[1].steps.final) # ToIntMatrix(calls[1].postmask_value)
    /\ Rows(calls[1].premask_value) = 0..(get_size_from_version(calls[1].version) - 1)

-----------------------------------------------------------------------------
(* Properties of data placement (specification SpecPlace).                 *)

\* the column pairs of a symbol of the given size
PairCount(size) == (size - 1) \div 2

\* the right column of pair p, counted from 0 at the right edge: the pairs
\* left of column 6 lie one column further left
RightColumn(size, p) ==
    IF p < (size - 7) \div 2 THEN size - 1 - 2 * p ELSE size - 2 - 2 * p

\* the k-th cell visited, counted from 0: pairs from the right, even pairs
\* upwards and odd pairs downwards, the right column of a row first
VisitedCell(size, k) ==
    LET p == k \div (2 * size)
        step == (k % (2 * size)) \div 2
        side == k % 2
    IN  << IF p % 2 = 0 THEN size - 1 - step ELSE step, RightColumn(size, p) - side >>

VisitingOrder(size) ==
    [k \in 1..(2 * size * PairCount(size)) |-> VisitedCell(size, k - 1)]

\* the cells the layout left unset, in visiting order
UnsetInOrder(layout, size) ==
    LET IsUnset(cell) == layout[cell[1]][cell[2]] = None
    IN  SelectSeq(VisitingOrder(size), IsUnset)

\* C24: place_data_bits writes bit k of the bitstream into the k-th unset
\* cell of the visiting order (column pairs from the right with column 6
\* skipped, the first pair upwards and the direction flipping at each pair,
\* the right column of a row before the left); cells the layout set keep
\* their value.
C24_ZigZagOrder ==
    (pc = "function_map" /\ calls = << >>) =>
        LET size == get_size_from_version(version)
            layout == LayoutPatterns(version)
            unset == UnsetInOrder(layout, size)
        IN  /\ \A k \in 1..Len(unset) :
                  k <= Len(final_bits) =>
                      matrix[unset[k][1]][unset[k][2]] = final_bits[k]
            /\ \A r \in 0..(size - 1), c \in 0..(size - 1) :
                  layout[r][c] # None => matrix[r][c] = layout[r][c]

\* a version 2 bitstream placed: the first bit in the bottom right corner,
\* and a 1 bit in a cell left of column 6
C24_Witness ==
    /\ pc = "function_map"
    /\ calls = << >>
    /\ version = 2
    /\ LET unset == UnsetInOrder(LayoutPatterns(2), 25)
       IN  /\ unset[1] = << 24, 24 >>
           /\ unset[2] = << 24, 23 >>
           /\ Len(unset) = get_expected_bitstream_length_for_version(2)
           /\ \E k \in 1..Len(unset) :
                 /\ k <= Len(final_bits)
                 /\ unset[k][2] < 6
                 /\ final_bits[k] = 1
                 /\ matrix[unset[k][1]][unset[k][2]] = 1

IsSetAt(m, r, c) == m[r][c] \in {0, 1, R}

\* the cells reserved for format information in a symbol of the given size
ReservedCells(size) ==
    PrimaryCells
    \cup { << 8, c >> : c \in (size - 8)..(size - 1) }
    \cup { << r, 8 >> : r \in (size - 8)..(size - 1) }

\* C25: for both versions, after the layout steps of generate_qr_module and
\* before data placement, the cells that are set (0, 1 or 'R') are exactly
\* the cells where create_function_pattern_matrix is true, and the reserved
\* cells are exactly the 15 primary format cells, row 8 columns N-8..N-1 and
\* column 8 rows N-8..N-1.
C25_LayoutMatchesFunctionMap ==
    (pc = "place_data" /\ calls = << >>) =>
        /\ CellsWhere(matrix, IsSetAt) =
               CellsWhere(create_function_pattern_matrix(version), IsTrueAt)
        /\ CellsWhere(matrix, IsReservedAt) =
               ReservedCells(get_size_from_version(version))

\* the version 2 layout before data placement: 31 reserved cells, the
\* alignment pattern set, and cells left for the data
C25_Witness ==
    /\ pc = "place_data"
    /\ calls = << >>
    /\ version = 2
    /\ Cardinality(CellsWhere(matrix, IsReservedAt)) = 31
    /\ matrix[18][18] = 1
    /\ matrix[24][24] = None
    /\ create_function_pattern_matrix(2)[18][18]

-----------------------------------------------------------------------------
(* Properties of masking (specification SpecApply).                        *)

\* the eight mask conditions as the claim states them
MaskCondition(id, r, c) ==
    LET product == r * c
        total == r + c
    IN  \/ id = 0 /\ total % 2 = 0
        \/ id = 1 /\ r % 2 = 0
        \/ id = 2 /\ c % 3 = 0
        \/ id = 3 /\ total % 3 = 0
        \/ id = 4 /\ ((r \div 2) + (c \div 3)) % 2 = 0
        \/ id = 5 /\ (product % 2) + (product % 3) = 0
        \/ id = 6 /\ ((product % 2) + (product % 3)) % 2 = 0
        \/ id = 7 /\ ((total % 2) + (product % 3)) % 2 = 0

\* apply_specific_mask_pattern has returned or raised
MaskApplied == pc \in {"applied", "failed"} /\ mask_map # EmptyMatrix

\* C26: on a 21x21 or 25x25 matrix the mask of id 0..7 inverts a data cell
\* (r, c) exactly when the condition of that id holds there, the eight
\* conditions being those of the standard; any other id is rejected with an
\* error and no matrix is produced.
C26_MaskConditions ==
    MaskApplied =>
        /\ mask_arg \notin 0..7 =>
              /\ pc = "failed"
              /\ error = "mask_id"
              /\ masked_matrix = EmptyMatrix
        /\ pc = "applied" =>
              /\ mask_arg \in 0..7
              /\ \A r \in Rows(matrix), c \in Cols(matrix) :
                    /\ should_mask(mask_arg, r, c) = MaskCondition(mask_arg, r, c)
                    /\ ~mask_map[r][c] =>
                          masked_matrix[r][c] =
                              (IF MaskCondition(mask_arg, r, c)
                               THEN 1 - matrix[r][c] ELSE matrix[r][c])

\* mask 4 applied to a version 2 matrix: the data cell (24, 24) is inverted
\* and the data cell (24, 21) is not
C26_Witness ==
    /\ pc = "applied"
    /\ mask_arg = 4
    /\ version = 2
    /\ ~mask_map[24][24]
    /\ masked_matrix[24][24] = 1 - matrix[24][24]
    /\ ~mask_map[24][21]
    /\ masked_matrix[24][21] = matrix[24][21]

\* mask id 8 handed to apply_specific_mask_pattern: rejected
C26_WitnessRejected ==
    /\ pc = "failed"
    /\ mask_arg = 8
    /\ error = "mask_id"

-----------------------------------------------------------------------------
(* Properties of the penalty rules (specification SpecPenalty).            *)

\* the maximal runs of equal cells of row a (horizontal) or column a, each
\* as << first cell, last cell >>
MaximalRuns(m, horizontal, a) ==
    LET last == MatrixSize(m) - 1
        Cell(pos) == LineCell(m, horizontal, a, pos)
    IN  { run \in (0..last) \X (0..last) :
            /\ run[1] <= run[2]
            /\ \A pos \in run[1]..run[2] : Cell(pos) = Cell(run[1])
            /\ (run[1] = 0 \/ Cell(run[1] - 1) # Cell(run[1]))
            /\ (run[2] = last \/ Cell(run[2] + 1) # Cell(run[1])) }

RunLength(run) == run[2] - run[1] + 1

\* the sum of 3 + (k - 5) over the runs of length k >= 5 in a set of runs
RECURSIVE SumOfRuns(_)
SumOfRuns(runs) ==
    IF runs = {} THEN 0
    ELSE LET run == CHOOSE x \in runs : TRUE
             k == RunLength(run)
         IN  (IF k >= 5 THEN 3 + (k - 5) ELSE 0) + SumOfRuns(runs \ {run})

\* the sum over the rows, or over the columns, from line a on
RECURSIVE SumOfLines(_, _, _)
SumOfLines(m, horizontal, a) ==
    IF a >= MatrixSize(m) THEN 0
    ELSE SumOfRuns(MaximalRuns(m, horizontal, a)) + SumOfLines(m, horizontal, a + 1)

\* C27: for every 0/1 matrix the rule-1 penalty is the sum, over every row
\* and every column, over every maximal run of equal cells of length k >= 5
\* (a run that ends at the last cell of the line included), of 3 + (k - 5).
C27_Rule1RunSum ==
    (pc = "scored" /\ matrix # EmptyMatrix) =>
        scores[1] = SumOfLines(matrix, TRUE, 0) + SumOfLines(matrix, FALSE, 0)

\* a 6 x 6 matrix with a run of exactly 5 cells that ends at the last cell
\* of row 0, and a penalty that is not 0
C27_Witness ==
    /\ pc = "scored"
    /\ MatrixSize(matrix) = 6
    /\ << 1, 5 >> \in MaximalRuns(matrix, TRUE, 0)
    /\ scores[1] >= 3

DarkCells(m) == Cardinality(CellsWhere(m, LAMBDA mm, r, c : mm[r][c] = 1))

-----------------------------------------------------------------------------
(* Properties of the assembled symbol (specification Spec).                *)

\* the first five bits of the pattern the format string is XORed with
FormatXorHead == << 1, 0, 1, 0, 1 >>

\* format bits b[0..4] read from the horizontal copy, the XOR undone
HorizontalFormatData(m) ==
    LET size == MatrixSize(m)
    IN  [i \in 1..5 |-> (m[8][size - i] + FormatXorHead[i]) % 2]

\* format bits b[0..4] read from the vertical copy, the XOR undone
VerticalFormatData(m) ==
    LET size == MatrixSize(m)
    IN  [i \in 1..5 |-> (m[size - i][8] + FormatXorHead[i]) % 2]

\* the five data bits of the format: level L and the 3-bit mask id
FormatDataOf(mask_id) ==
    << 0, 1, (mask_id \div 4) % 2, (mask_id \div 2) % 2, mask_id % 2 >>

\* C29: for every accepted input, the format bits b[0..4] of the final
\* matrix, read from the horizontal copy (8, N-1-i) or from the vertical
\* copy (N-1-i, 8) and XORed with 10101, are '01' followed by the 3-bit id of
\* the mask find_best_pattern returned, and that mask is the one applied to
\* the data cells.
C29_FormatEncodesAppliedMask ==
    pc = "done" =>
        /\ best_mask \in 0..7
        /\ HorizontalFormatData(final_matrix) = FormatDataOf(best_mask)
        /\ VerticalFormatData(final_matrix) = FormatDataOf(best_mask)
        /\ masked_matrix = apply_specific_mask_pattern(best_mask, matrix, mask_map)
        /\ \A r \in Rows(matrix), c \in Cols(matrix) :
              ~mask_map[r][c] =>
                  final_matrix[r][c] =
                      (IF MaskCondition(best_mask, r, c)
                       THEN 1 - matrix[r][c] ELSE matrix[r][c])

\* a version 2 symbol whose mask id has two bits set
C29_Witness ==
    /\ pc = "done"
    /\ version = 2
    /\ best_mask \in {3, 5, 6}
    /\ HorizontalFormatData(final_matrix) = FormatDataOf(best_mask)
    /\ \E r \in Rows(matrix), c \in Cols(matrix) :
          ~mask_map[r][c] /\ final_matrix[r][c] # matrix[r][c]

\* C30: place_format_information writes only to cells where the function
\* map is true: every data cell of the final matrix holds the value it had
\* after masking, the bitstream bit placed there XOR the condition of the
\* chosen mask at that cell; and the finder, separator, timing and alignment
\* cells hold what the layout put there.
C30_FormatFrame ==
    pc = "done" =>
        LET size == get_size_from_version(version)
            layout == LayoutPatterns(version)
            unset == UnsetInOrder(layout, size)
        IN  /\ \A r \in 0..(size - 1), c \in 0..(size - 1) :
                  /\ ~mask_map[r][c] => final_matrix[r][c] = masked_matrix[r][c]
                  /\ layout[r][c] \in {0, 1} => final_matrix[r][c] = layout[r][c]
            /\ Len(unset) = Len(final_bits)
            /\ \A k \in 1..Len(unset) :
                  LET r == unset[k][1]
                      c == unset[k][2]
                  IN  /\ ~mask_map[r][c]
                      /\ final_matrix[r][c] =
                             (final_bits[k] + (IF should_mask(best_mask, r, c)
                                               THEN 1 ELSE 0)) % 2

\* a version 1 symbol whose format bits changed reserved cells, the data cell
\* next to the top right copy being a masked 1 bit
C30_Witness ==
    /\ pc = "done"
    /\ version = 1
    /\ final_matrix # ToIntMatrix(masked_matrix)
    /\ ~mask_map[8][12]
    /\ final_matrix[8][12] = masked_matrix[8][12]
    /\ final_matrix[8][12] # fmt[9]
    /\ final_matrix[8][13] = fmt[8]

====
